---- MODULE Spec2Model ----
(***************************************************************************)
(* Learner-profile engine of the visual-centric learning platform.         *)
(*                                                                         *)
(* The module holds several specifications over one set of variables:      *)
(*   SpecSeq    sequential calls of                                        *)
(*              AdvancedPersonalizationAgent.track_learning_progress       *)
(*   SpecTrack  concurrent requests that record a learning interaction     *)
(*              (load the profile file, mutate, save)                      *)
(* Each specification leaves the variables of the others at their parked   *)
(* initial values.                                                         *)
(*                                                                         *)
(* Numbers: proficiency and success_rate are Python floats in the source;  *)
(* here they are integers in thousandths (0.1 = 100), so the arithmetic is *)
(* the exact decimal arithmetic and float rounding is not modelled.        *)
(* Timestamps written with datetime.now() are not modelled in the tracking *)
(* part: no modelled decision reads them.                                  *)
(***************************************************************************)
EXTENDS Integers, Sequences, FiniteSets, TLC

VARIABLES
    advFile,    \* user_profiles/advanced_profile_<id>.json of the one user: a profile or NoFile
    userFiles,  \* user_profiles/user_<key>.json, by key: the stored JSON object or NoFile
    req,        \* in-flight requests of SpecTrack: position, inputs and the loaded copy
    calls,      \* number of completed calls (bounds the sequential specifications)
    supabaseOn,     \* whether the module-level Supabase client was created (SUPABASE_URL and key set)
    dbRows,         \* table user_profiles of the primary database, by user_id: a row or NoRow
    user_contexts,  \* UserContextManager.user_contexts, the in-memory cache: a context or NoCtx
    putDb,          \* history: the context whose last write to the database succeeded, by user
    putFile,        \* history: the context whose last write to the fallback file succeeded, by user
    agent_cache,    \* personalization/router.py agent_cache, by user_id: an agent instance or NoAgent
    agentFiles,     \* user_profiles/<user_id>.json of personalization/agent.py: a profile or NoFile
    firstAgent,     \* history: by variant and user, the first agent instance created (0: none yet)
    lastOp          \* history: what the last operation did and returned

trackVars == <<advFile, req>>
storeVars == <<supabaseOn, dbRows, user_contexts, putDb, putFile>>
agentVars == <<agent_cache, agentFiles, firstAgent>>
vars == <<advFile, userFiles, req, calls, supabaseOn, dbRows, user_contexts, putDb, putFile,
          agent_cache, agentFiles, firstAgent, lastOp>>

NoFile == [exists |-> FALSE]
NoRow == [exists |-> FALSE]
NoCtx == [exists |-> FALSE]

\* Python dictionaries are functions from keys to values
EmptyDict == [k \in {} |-> 0]
GetOr(d, k, default) == IF k \in DOMAIN d THEN d[k] ELSE default
Put(d, k, v) == [x \in DOMAIN d \cup {k} |-> IF x = k THEN v ELSE d[x]]
\* d.update(e)
Updated(d, e) == [x \in DOMAIN d \cup DOMAIN e |-> IF x \in DOMAIN e THEN e[x] ELSE d[x]]
\* lst.append(x) if x not in lst
AppendNew(lst, x) == IF \E i \in 1..Len(lst) : lst[i] = x THEN lst ELSE Append(lst, x)

Min(a, b) == IF a < b THEN a ELSE b
Max(a, b) == IF a > b THEN a ELSE b

RECURSIVE SumSeq(_)
SumSeq(s) == IF s = <<>> THEN 0 ELSE Head(s) + SumSeq(Tail(s))

\* s[-n:] of Python
LastN(s, n) == IF Len(s) <= n THEN s ELSE SubSeq(s, Len(s) - n + 1, Len(s))

----------------------------------------------------------------------------
(* Bounds *)
MaxCalls == 3           \* calls of one sequential run after the initial state
NReq == 2               \* concurrent requests of SpecTrack

(* Inputs *)
TrackUser == "u1"                       \* the user of the tracking specifications
FileKeys == {"u1"}                      \* <key> of the files user_profiles/user_<key>.json
StoreUsers == {"u1"}                    \* user ids of the profile store (none contains "@")
NoRate == 9999                          \* interaction_data without 'success_rate'
Topics == {"", "recursion", "loops"}    \* "" is a missing or empty topic
InRangeRates == {0, 500, 1000}
SuccessRates == InRangeRates \cup {0 - 500, 1500, NoRate}
PriorCalls == {0, 4, 9}                 \* calls already recorded when a sequential run starts

NoUserFiles == [k \in FileKeys |-> NoFile]

(* Program constants, in thousandths *)
InitialProficiency == 100
LearningRate == 100
ProficiencyCap == 1000
DefaultRate == 500
DefaultVelocity == 500
VelocityWindow == 10
VelocityMinSamples == 5

----------------------------------------------------------------------------
(* AdvancedPersonalizationAgent *)

DefaultAdvancedProfile ==
    [knowledge_areas |-> [t \in {} |-> 0],
     learning_history |-> <<>>,
     learning_velocity |-> [num |-> DefaultVelocity, den |-> 1]]

\* get_advanced_user_profile: the stored profile, else the default one (nothing is written)
GetAdvancedUserProfile(file) == IF file = NoFile THEN DefaultAdvancedProfile ELSE file

RateOf(entry) == IF entry.success_rate = NoRate THEN DefaultRate ELSE entry.success_rate

\* the update without the min(1.0, ...) cap
UpdatedProficiencyUncapped(current, rate) == current + (rate * LearningRate) \div 1000

\* area['proficiency'] = min(1.0, current_proficiency + (success_rate * learning_rate))
UpdatedProficiency(current, rate) == Min(ProficiencyCap, current + (rate * LearningRate) \div 1000)

\* the update with a new area starting at proficiency 0 instead of 0.1
UpdatedAreaFromZero(ka, topic, rate) ==
    LET area == IF topic \in DOMAIN ka THEN ka[topic]
                ELSE [proficiency |-> 0, interactions |-> 0]
    IN  [proficiency |-> UpdatedProficiency(area.proficiency, rate),
         interactions |-> area.interactions + 1]

\* the area of the topic after the update: a new one starts at 0.1 with 0 interactions
UpdatedArea(ka, topic, rate) ==
    LET area == IF topic \in DOMAIN ka THEN ka[topic]
                ELSE [proficiency |-> InitialProficiency, interactions |-> 0]
    IN  [proficiency |-> UpdatedProficiency(area.proficiency, rate),
         interactions |-> area.interactions + 1]

UpdatedVelocity(old, history) ==
    LET recent == LastN(history, VelocityWindow)
    IN  IF Len(recent) >= VelocityMinSamples
        THEN [num |-> SumSeq([i \in 1..Len(recent) |-> RateOf(recent[i])]), den |-> Len(recent)]
        ELSE old

\* The mutation track_learning_progress applies to the profile it loaded
TrackMutation(profile, topic, sr) ==
    LET entry == [topic |-> topic, success_rate |-> sr]
        history == Append(profile.learning_history, entry)
        ka == profile.knowledge_areas
        ka2 == IF topic = "" THEN ka
               ELSE [t \in DOMAIN ka \cup {topic} |->
                        IF t = topic THEN UpdatedArea(ka, topic, RateOf(entry)) ELSE ka[t]]
    IN  [knowledge_areas |-> ka2,
         learning_history |-> history,
         learning_velocity |-> UpdatedVelocity(profile.learning_velocity, history)]

\* A profile the program reaches by k calls with success_rate 1.0 on "recursion"
RECURSIVE AfterCalls(_)
AfterCalls(k) ==
    IF k = 0 THEN NoFile
    ELSE TrackMutation(GetAdvancedUserProfile(AfterCalls(k - 1)), "recursion", 1000)

\* track_learning_progress as one call
TrackLearningProgress(topic, sr) ==
    /\ calls < MaxCalls
    /\ advFile' = TrackMutation(GetAdvancedUserProfile(advFile), topic, sr)
    /\ calls' = calls + 1
    /\ UNCHANGED <<userFiles, req, storeVars, agentVars, lastOp>>

ParkedReq == [r \in 1..NReq |-> [pc |-> "parked"]]

NoAgent == [exists |-> FALSE]
AgentUsers == {"u1"}
Variants == {"A", "B"}

ParkedAgent ==
    /\ agent_cache = [u \in AgentUsers |-> NoAgent]
    /\ agentFiles = [u \in AgentUsers |-> NoFile]
    /\ firstAgent = [v \in Variants |-> [u \in AgentUsers |-> 0]]

ParkedStore ==
    /\ supabaseOn = FALSE
    /\ dbRows = [u \in StoreUsers |-> NoRow]
    /\ user_contexts = [u \in StoreUsers |-> NoCtx]
    /\ putDb = [u \in StoreUsers |-> NoCtx]
    /\ putFile = [u \in StoreUsers |-> NoCtx]
    /\ lastOp = [op |-> "none"]

InitSeq ==
    /\ advFile \in {AfterCalls(k) : k \in PriorCalls}
    /\ userFiles = NoUserFiles
    /\ req = ParkedReq
    /\ calls = 0
    /\ ParkedStore
    /\ ParkedAgent

NextSeq == \E topic \in Topics, sr \in SuccessRates : TrackLearningProgress(topic, sr)

SpecSeq == InitSeq /\ [][NextSeq]_vars

\* C3: while every recorded success_rate lies in [0,1], every proficiency lies in [0,1]
AllRatesInRange(profile) ==
    \A i \in 1..Len(profile.learning_history) :
        RateOf(profile.learning_history[i]) \in 0..1000

C3_ProficiencyInUnitRange ==
    (advFile # NoFile /\ AllRatesInRange(advFile)) =>
        \A t \in DOMAIN advFile.knowledge_areas :
            advFile.knowledge_areas[t].proficiency \in 0..ProficiencyCap

\* the cap has acted: an eleventh in-range call on a topic already at 1.0
C3_Witness ==
    /\ advFile # NoFile
    /\ AllRatesInRange(advFile)
    /\ calls >= 2
    /\ "recursion" \in DOMAIN advFile.knowledge_areas
    /\ advFile.knowledge_areas["recursion"].interactions >= 11
    /\ advFile.knowledge_areas["recursion"].proficiency = ProficiencyCap

\* the entry the call just made appended to learning_history
LastEntry(file) == file.learning_history[Len(file.learning_history)]

----------------------------------------------------------------------------
(* EnhancedLearningAgent *)

\* _create_enhanced_profile
CreateEnhancedProfile ==
    [interactions_count |-> 0,
     skill_level |-> "beginner",
     learning_style |-> <<"visual">>,
     knowledge_areas |-> [t \in {} |-> 0],
     session_history |-> <<>>]

MigratedKeys == {"interactions_count", "skill_level", "knowledge_areas", "session_history"}

\* _migrate_profile_structure: a fresh enhanced profile that takes over the listed keys only
MigrateProfileStructure(old) ==
    [key \in DOMAIN CreateEnhancedProfile |->
        IF key \in MigratedKeys /\ key \in DOMAIN old THEN old[key] ELSE CreateEnhancedProfile[key]]

\* The mutation update_user_learning_progress applies to the profile it loaded
EnhancedMutation(profile, topic) ==
    LET ka == profile.knowledge_areas
        n == IF topic \in DOMAIN ka THEN ka[topic].interactions ELSE 0
    IN  [profile EXCEPT
            !.interactions_count = @ + 1,
            !.knowledge_areas = [t \in DOMAIN ka \cup {topic} |->
                                    IF t = topic
                                    THEN [interactions |-> n + 1, estimated_skill |->
                                            IF topic \in DOMAIN ka THEN ka[topic].estimated_skill
                                            ELSE "beginner"]
                                    ELSE ka[t]],
            !.session_history = Append(@, [topic |-> topic])]

----------------------------------------------------------------------------
(* Concurrent requests that record an interaction: each loads the stored   *)
(* profile, mutates its copy and writes the whole copy back.  Neither      *)
(* function takes a lock or re-reads the file before it writes.            *)

AreaTopics == Topics \ {""}

\* track_learning_progress, first step: profile = self.get_advanced_user_profile(user_id)
AdvLoad(r, topic, sr) ==
    /\ req[r].pc = "idle"
    /\ req' = [req EXCEPT ![r] = [pc |-> "loaded", agent |-> "advanced", topic |-> topic,
                                  sr |-> sr, local |-> GetAdvancedUserProfile(advFile)]]
    /\ UNCHANGED <<advFile, userFiles, calls, storeVars, agentVars, lastOp>>

\* track_learning_progress, the rest: mutate the copy, self._save_advanced_profile(user_id, profile)
AdvSave(r) ==
    /\ req[r].pc = "loaded"
    /\ req[r].agent = "advanced"
    /\ advFile' = TrackMutation(req[r].local, req[r].topic, req[r].sr)
    /\ req' = [req EXCEPT ![r].pc = "done", ![r].local = advFile']
    /\ UNCHANGED <<userFiles, calls, storeVars, agentVars, lastOp>>

\* update_user_learning_progress, first step: profile = self.get_user_profile(user_id);
\* a missing file is created and written by this step
EnhLoad(r, topic) ==
    /\ req[r].pc = "idle"
    /\ LET stored == userFiles[TrackUser]
           profile == IF stored = NoFile THEN CreateEnhancedProfile
                      ELSE MigrateProfileStructure(stored)
       IN  /\ req' = [req EXCEPT ![r] = [pc |-> "loaded", agent |-> "enhanced", topic |-> topic,
                                         sr |-> NoRate, local |-> profile]]
           /\ userFiles' = IF stored = NoFile
                           THEN [userFiles EXCEPT ![TrackUser] = profile]
                           ELSE userFiles
    /\ UNCHANGED <<advFile, calls, storeVars, agentVars, lastOp>>

\* update_user_learning_progress, the rest: mutate the copy, self._save_user_profile(user_id, profile)
EnhSave(r) ==
    /\ req[r].pc = "loaded"
    /\ req[r].agent = "enhanced"
    /\ userFiles' = [userFiles EXCEPT ![TrackUser] = EnhancedMutation(req[r].local, req[r].topic)]
    /\ req' = [req EXCEPT ![r].pc = "done", ![r].local = userFiles'[TrackUser]]
    /\ UNCHANGED <<advFile, calls, storeVars, agentVars, lastOp>>

InitTrack ==
    /\ advFile = NoFile
    /\ userFiles = NoUserFiles
    /\ req = [r \in 1..NReq |-> [pc |-> "idle"]]
    /\ calls = 0
    /\ ParkedStore
    /\ ParkedAgent

NextTrack ==
    \E r \in 1..NReq :
        \/ \E topic \in AreaTopics, sr \in InRangeRates : AdvLoad(r, topic, sr)
        \/ AdvSave(r)
        \/ \E topic \in AreaTopics : EnhLoad(r, topic)
        \/ EnhSave(r)

SpecTrack == InitTrack /\ [][NextTrack]_vars

AllDone == \A r \in 1..NReq : req[r].pc = "done"

DistinctTopics ==
    \A r1, r2 \in 1..NReq :
        (r1 # r2 /\ req[r1].agent = req[r2].agent) => req[r1].topic # req[r2].topic

Recorded(r) ==
    IF req[r].agent = "advanced"
    THEN /\ req[r].topic \in DOMAIN advFile.knowledge_areas
         /\ \E i \in 1..Len(advFile.learning_history) :
                advFile.learning_history[i].topic = req[r].topic
    ELSE /\ req[r].topic \in DOMAIN userFiles[TrackUser].knowledge_areas
         /\ \E i \in 1..Len(userFiles[TrackUser].session_history) :
                userFiles[TrackUser].session_history[i].topic = req[r].topic

----------------------------------------------------------------------------
(* UserContextManager: the profile store with the Supabase table as the    *)
(* primary backend and user_profiles/user_<safe id>.json as the fallback.  *)
(* A string that holds JSON text is the pair <<"json", value>>: json.dumps *)
(* builds it and json.loads takes the value out again.  None is "None".    *)
(* The timestamps createdAt / lastUpdated are not modelled.                *)

None == "None"
\* None where a list or a JSON text is expected (a column no insert has set)
NoneList == <<"null">>
JsonDumps(v) == <<"json", v>>
JsonLoads(text) == text[2]

\* the user ids of the model, character by character
UserIdChars ==
    ("u1" :> <<"u", "1">>) @@ ("a+b" :> <<"a", "+", "b">>) @@ ("a_b" :> <<"a", "_", "b">>)

\* c.isalnum() or c in "._-@", for the lower-case letters and the digits
KeptInFileName(c) ==
    c \in {"a", "b", "c", "d", "e", "f", "g", "h", "i", "j", "k", "l", "m", "n", "o", "p", "q",
           "r", "s", "t", "u", "v", "w", "x", "y", "z", "0", "1", "2", "3", "4", "5", "6", "7",
           "8", "9", ".", "_", "-", "@"}

\* safe_user_id: every character outside [alnum . _ - @] becomes "_"
SafeUserId(u) ==
    LET chars == UserIdChars[u]
        safe == [i \in 1..Len(chars) |-> IF KeptInFileName(chars[i]) THEN chars[i] ELSE "_"]
    IN  CHOOSE k \in DOMAIN UserIdChars : UserIdChars[k] = safe

\* f"{user_id}@guest.com"
GuestEmail(u) == CASE u = "u1" -> "u1@guest.com"

\* backend availability during one call: each backend call raises or succeeds
Envs == [dbUp : BOOLEAN, fileUp : BOOLEAN]

\* _create_default_context, the dictionary it builds
DefaultContext(u) ==
    [userId |-> u,
     name |-> u,
     preferences |-> [learningStyle |-> "visual", weakTopics |-> <<>>,
                      goals |-> <<"Master coding concepts">>],
     lastActivity |-> None,
     recentQuestions |-> <<>>,
     sessionData |-> [interactionCount |-> 0, topics |-> <<>>]]

Preferences(ctx) == GetOr(ctx, "preferences", EmptyDict)

\* _prepare_for_database
PrepareForDatabase(u, ctx) ==
    [user_id |-> u,
     email |-> GetOr(ctx, "email", GuestEmail(u)),
     name |-> GetOr(ctx, "name", u),
     learning_style |-> JsonDumps(<<GetOr(Preferences(ctx), "learningStyle", "visual")>>),
     weak_topics |-> JsonDumps(GetOr(Preferences(ctx), "weakTopics", <<>>)),
     learning_goals |-> JsonDumps(GetOr(Preferences(ctx), "goals", <<>>)),
     skill_level |-> GetOr(ctx, "skillLevel", "beginner"),
     last_activity_date |-> GetOr(ctx, "lastActivity", None),
     learning_preferences |->
        JsonDumps([style |-> GetOr(Preferences(ctx), "learningStyle", "visual")])]

\* the columns _load_from_database decodes with json.loads
JsonFields == {"learning_style", "learning_preferences", "topics_of_interest", "goals",
               "weak_topics", "current_skills", "interests"}

ParseJsonFields(row) ==
    [col \in DOMAIN row |-> IF col \in JsonFields /\ row[col] # NoneList
                            THEN JsonLoads(row[col]) ELSE row[col]]

\* _standardize_user_data; learning_goals is not among the decoded columns, so the
\* non-empty JSON text it holds is what `learning_goals or goals` yields
StandardizeUserData(row) ==
    [userId |-> row.user_id,
     name |-> GetOr(row, "name", ""),
     email |-> GetOr(row, "email", ""),
     preferences |->
        [learningStyle |-> IF "learning_style" \in DOMAIN row
                           THEN Head(row.learning_style) ELSE "visual",
         weakTopics |-> GetOr(row, "weak_topics", <<>>),
         goals |-> IF "learning_goals" \in DOMAIN row THEN row.learning_goals
                   ELSE GetOr(row, "goals", <<>>)],
     skillLevel |-> GetOr(row, "skill_level", "beginner"),
     lastActivity |-> GetOr(row, "last_activity_date", None),
     recentQuestions |-> <<>>,
     sessionData |-> [interactionCount |-> 0, topics |-> <<>>]]

\* _load_from_database: None without a client, on an exception and on a miss
LoadFromDatabase(rows, u, env) ==
    IF ~supabaseOn \/ ~env.dbUp \/ rows[u] = NoRow THEN NoCtx
    ELSE StandardizeUserData(ParseJsonFields(rows[u]))

\* _load_from_file: None on a missing file and on an exception
LoadFromFile(files, u, env) ==
    IF ~env.fileUp \/ files[SafeUserId(u)] = NoFile THEN NoCtx
    ELSE files[SafeUserId(u)]

\* _save_to_database with exceptions escaping instead of being logged
SaveToDatabaseUncaught(rows, u, ctx, env) ==
    IF ~supabaseOn THEN [rows |-> rows, attempted |-> FALSE, ok |-> FALSE, raised |-> FALSE]
    ELSE IF ~env.dbUp THEN [rows |-> rows, attempted |-> TRUE, ok |-> FALSE, raised |-> TRUE]
    ELSE [rows |-> [rows EXCEPT ![u] = IF @ = NoRow THEN PrepareForDatabase(u, ctx)
                                       ELSE Updated(@, PrepareForDatabase(u, ctx))],
          attempted |-> TRUE, ok |-> TRUE, raised |-> FALSE]

\* _save_to_database: insert or update of the prepared columns; every exception is logged
SaveToDatabase(rows, u, ctx, env) ==
    IF ~supabaseOn THEN [rows |-> rows, attempted |-> FALSE, ok |-> FALSE, raised |-> FALSE]
    ELSE IF ~env.dbUp THEN [rows |-> rows, attempted |-> TRUE, ok |-> FALSE, raised |-> FALSE]
    ELSE [rows |-> [rows EXCEPT ![u] = IF @ = NoRow THEN PrepareForDatabase(u, ctx)
                                       ELSE Updated(@, PrepareForDatabase(u, ctx))],
          attempted |-> TRUE, ok |-> TRUE, raised |-> FALSE]

\* _save_to_file: json.dump of the whole context; every exception is logged
SaveToFile(files, u, ctx, env) ==
    IF ~env.fileUp THEN [files |-> files, attempted |-> TRUE, ok |-> FALSE, raised |-> FALSE]
    ELSE [files |-> [files EXCEPT ![SafeUserId(u)] = ctx],
          attempted |-> TRUE, ok |-> TRUE, raised |-> FALSE]

NotSaved(rows, files) ==
    [rows |-> rows, files |-> files, dbAttempted |-> FALSE, dbOk |-> FALSE,
     fileAttempted |-> FALSE, fileOk |-> FALSE, raised |-> FALSE]

\* _save_user_context: the database first when there is a client, then always the file;
\* an exception that escaped the first write would skip the second
SaveUserContext(rows, files, u, ctx, env) ==
    LET d == SaveToDatabase(rows, u, ctx, env)
    IN  IF d.raised
        THEN [rows |-> d.rows, files |-> files, dbAttempted |-> d.attempted, dbOk |-> d.ok,
              fileAttempted |-> FALSE, fileOk |-> FALSE, raised |-> TRUE]
        ELSE LET f == SaveToFile(files, u, ctx, env)
             IN  [rows |-> d.rows, files |-> f.files, dbAttempted |-> d.attempted,
                  dbOk |-> d.ok, fileAttempted |-> f.attempted, fileOk |-> f.ok,
                  raised |-> f.raised]

\* get_user_context: cache, else database, else file, else a default context that
\* _create_default_context saves at once
GetUserContextResult(cache, rows, files, u, env) ==
    IF cache[u] # NoCtx
    THEN [ctx |-> cache[u], source |-> "cache", save |-> NotSaved(rows, files)]
    ELSE LET fromDb == LoadFromDatabase(rows, u, env)
             fromFile == LoadFromFile(files, u, env)
         IN  IF fromDb # NoCtx
             THEN [ctx |-> fromDb, source |-> "database", save |-> NotSaved(rows, files)]
             ELSE IF fromFile # NoCtx
             THEN [ctx |-> fromFile, source |-> "file", save |-> NotSaved(rows, files)]
             ELSE [ctx |-> DefaultContext(u), source |-> "default",
                   save |-> SaveUserContext(rows, files, u, DefaultContext(u), env)]


(* Inputs of the profile store *)
MaxStoreOps == 3                        \* operations of one run of the profile store
Questions == {"q1"}
Goals == {"learn python"}
Levels == {"beginner", "intermediate", "advanced", "expert"}
PrefChoices == {[learningStyle |-> "textual", weakTopics |-> <<"loops">>, goals |-> <<"pass exam">>]}
RecentQuestionsCap == 5

\* update_user_context, the loop over the updates (one key per call here)
ApplyUpdate(ctx, key, value) ==
    IF key = "recentQuestions"
    THEN Put(ctx, key, LastN(Append(GetOr(ctx, key, <<>>), value), RecentQuestionsCap))
    ELSE IF key \in {"weakTopics", "goals"}
    THEN Put(ctx, key, AppendNew(GetOr(ctx, key, <<>>), value))
    ELSE Put(ctx, key, value)

\* the history of successful writes after a save of ctx
PutAfter(put, u, ok, ctx) == IF ok THEN [put EXCEPT ![u] = ctx] ELSE put

\* update_user_context(user_id, {key: value})
UpdateUserContext(u, key, value, env) ==
    /\ calls < MaxStoreOps
    /\ LET g == GetUserContextResult(user_contexts, dbRows, userFiles, u, env)
           ctx == ApplyUpdate(g.ctx, key, value)
           s == SaveUserContext(g.save.rows, g.save.files, u, ctx, env)
           putDb1 == PutAfter(putDb, u, g.save.dbOk, g.ctx)
           putFile1 == PutAfter(putFile, u, g.save.fileOk, g.ctx)
       IN  IF g.save.raised
           THEN /\ dbRows' = g.save.rows
                /\ userFiles' = g.save.files
                /\ putDb' = putDb1
                /\ putFile' = putFile1
                /\ UNCHANGED user_contexts
                /\ lastOp' = [op |-> "update", user |-> u, key |-> key, value |-> value,
                              raised |-> TRUE, dbAttempted |-> g.save.dbAttempted,
                              dbOk |-> g.save.dbOk, fileAttempted |-> g.save.fileAttempted,
                              fileOk |-> g.save.fileOk, result |-> NoCtx]
           ELSE /\ dbRows' = s.rows
                /\ userFiles' = s.files
                /\ putDb' = PutAfter(putDb1, u, s.dbOk, ctx)
                /\ putFile' = PutAfter(putFile1, u, s.fileOk, ctx)
                /\ user_contexts' = [user_contexts EXCEPT ![u] = ctx]
                /\ lastOp' = [op |-> "update", user |-> u, key |-> key, value |-> value,
                              raised |-> s.raised, dbAttempted |-> s.dbAttempted,
                              dbOk |-> s.dbOk, fileAttempted |-> s.fileAttempted,
                              fileOk |-> s.fileOk,
                              result |-> IF s.raised THEN NoCtx ELSE ctx]
    /\ calls' = calls + 1
    /\ UNCHANGED <<trackVars, agentVars, supabaseOn>>

\* get_user_context(user_id), as UserContext.__init__ calls it
GetUserContext(u, env) ==
    /\ calls < MaxStoreOps
    /\ LET g == GetUserContextResult(user_contexts, dbRows, userFiles, u, env)
       IN  /\ dbRows' = g.save.rows
           /\ userFiles' = g.save.files
           /\ putDb' = PutAfter(putDb, u, g.save.dbOk, g.ctx)
           /\ putFile' = PutAfter(putFile, u, g.save.fileOk, g.ctx)
           /\ user_contexts' = IF g.save.raised THEN user_contexts
                               ELSE [user_contexts EXCEPT ![u] = g.ctx]
           /\ lastOp' = [op |-> "get", user |-> u, source |-> g.source,
                         dbReachable |-> supabaseOn /\ env.dbUp,
                         raised |-> g.save.raised,
                         result |-> IF g.save.raised THEN NoCtx ELSE g.ctx]
    /\ calls' = calls + 1
    /\ UNCHANGED <<trackVars, agentVars, supabaseOn>>

\* the process ends and a new one starts: user_context_manager = UserContextManager()
RestartProcess ==
    /\ \E u \in DOMAIN user_contexts : user_contexts[u] # NoCtx
    /\ user_contexts' = [u \in DOMAIN user_contexts |-> NoCtx]
    /\ lastOp' = [op |-> "restart"]
    /\ UNCHANGED <<trackVars, agentVars, userFiles, calls, supabaseOn, dbRows, putDb, putFile>>

InitStore ==
    /\ advFile = NoFile
    /\ req = ParkedReq
    /\ userFiles = NoUserFiles
    /\ calls = 0
    /\ supabaseOn \in BOOLEAN
    /\ ParkedAgent
    /\ dbRows = [u \in StoreUsers |-> NoRow]
    /\ user_contexts = [u \in StoreUsers |-> NoCtx]
    /\ putDb = [u \in StoreUsers |-> NoCtx]
    /\ putFile = [u \in StoreUsers |-> NoCtx]
    /\ lastOp = [op |-> "none"]

NextStore ==
    \/ \E u \in StoreUsers, env \in Envs :
        \/ \E q \in Questions : UpdateUserContext(u, "recentQuestions", q, env)
        \/ \E t \in {"recursion"} : UpdateUserContext(u, "weakTopics", t, env)
        \/ \E g \in Goals : UpdateUserContext(u, "goals", g, env)
        \/ UpdateUserContext(u, "lastActivity", "Viewed q1", env)
        \/ UpdateUserContext(u, "skillLevel", "intermediate", env)
        \/ \E p \in PrefChoices : UpdateUserContext(u, "preferences", p, env)
        \/ GetUserContext(u, env)
    \/ RestartProcess

SpecStore == InitStore /\ [][NextStore]_vars

\* every field of the saved context is in the loaded one with the saved value
SameFields(saved, loaded) ==
    \A k \in DOMAIN saved : k \in DOMAIN loaded /\ loaded[k] = saved[k]

\* C2: a load that goes to the database or to the file returns the context that was
\* last saved there, equal on every field
C2_RoundTrip ==
    /\ (lastOp.op = "get" /\ lastOp.source = "database")
            => SameFields(putDb[lastOp.user], lastOp.result)
    /\ (lastOp.op = "get" /\ lastOp.source = "file")
            => SameFields(putFile[lastOp.user], lastOp.result)

\* C11: a load that finds the profile in the fallback file and not in the reachable
\* database leaves the profile written to the database
C11_ReadRepair ==
    (lastOp.op = "get" /\ lastOp.source = "file" /\ lastOp.dbReachable)
        => dbRows[lastOp.user] # NoRow

\* C12: a load of a user that is in neither backend writes to neither backend
C12_DefaultLoadWritesNothing ==
    [][\A u \in StoreUsers :
          (/\ lastOp'.op = "get"
           /\ lastOp'.user = u
           /\ lastOp'.source = "default"
           /\ dbRows[u] = NoRow
           /\ userFiles[SafeUserId(u)] = NoFile)
              => /\ dbRows'[u] = NoRow
                 /\ userFiles'[SafeUserId(u)] = NoFile]_vars

MutationKept(ctx, key, value) ==
    /\ key \in DOMAIN ctx
    /\ IF key \in {"recentQuestions", "weakTopics", "goals"}
       THEN \E i \in 1..Len(ctx[key]) : ctx[key][i] = value
       ELSE ctx[key] = value

\* C10: update_user_context attempts the file write whatever the database write did,
\* attempts the database write whenever there is a client, raises nothing, returns the
\* updated context and leaves it in the cache
C10_SaveFailuresContained ==
    lastOp.op = "update" =>
        /\ ~lastOp.raised
        /\ lastOp.fileAttempted
        /\ supabaseOn => lastOp.dbAttempted
        /\ lastOp.result = user_contexts[lastOp.user]
        /\ MutationKept(lastOp.result, lastOp.key, lastOp.value)

\* an update during which both writes failed
C10_Witness ==
    /\ lastOp.op = "update"
    /\ supabaseOn
    /\ lastOp.dbAttempted /\ ~lastOp.dbOk
    /\ lastOp.fileAttempted /\ ~lastOp.fileOk
    /\ MutationKept(user_contexts[lastOp.user], lastOp.key, lastOp.value)

----------------------------------------------------------------------------
(* EnhancedLearningAgent behind the endpoints of main.py, one call per     *)
(* action.  The agent catches nothing: a failing file operation ends the   *)
(* request with HTTP 500 (raised) before anything is written.              *)

MaxEnhOps == 4          \* calls of one run of the enhanced agent
MaxSamples == 2         \* code samples of one skill assessment

\* complexity_score and readability_score of a code sample as analyze_code_quality
\* computes them, in tenths: many plain lines with odd indentation (2.0, 5.0), many
\* plain lines (2.0, 6.7), a branch on most lines (7.0, 6.7), a single line (10.0, 6.7)
SampleScores == {[complexity |-> 20, readability |-> 50],
                 [complexity |-> 20, readability |-> 67],
                 [complexity |-> 70, readability |-> 67],
                 [complexity |-> 100, readability |-> 67]}

CodeSamples == UNION {[1..n -> SampleScores] : n \in 0..MaxSamples}

\* assess_skill_level: thresholds on the two averages
AssessSkillLevel(samples) ==
    LET n == Len(samples)
        complexity == SumSeq([i \in 1..n |-> samples[i].complexity])
        readability == SumSeq([i \in 1..n |-> samples[i].readability])
    IN  IF n = 0 THEN "beginner"
        ELSE IF complexity < 30 * n /\ readability < 60 * n THEN "beginner"
        ELSE IF complexity < 60 * n /\ readability < 80 * n THEN "intermediate"
        ELSE IF complexity < 80 * n THEN "advanced"
        ELSE "expert"

\* get_user_profile: the migrated stored profile, or a new profile that is written at once
EnhancedGetUserProfile(files, key) ==
    IF files[key] = NoFile
    THEN [profile |-> CreateEnhancedProfile,
          files |-> [files EXCEPT ![key] = CreateEnhancedProfile]]
    ELSE [profile |-> MigrateProfileStructure(files[key]), files |-> files]

EnhRaised(op, u) ==
    /\ lastOp' = [op |-> op, user |-> u, raised |-> TRUE]
    /\ UNCHANGED userFiles

\* GET endpoints of main.py that call learning_agent.get_user_profile(user_id)
EnhGetUserProfile(u, env) ==
    /\ calls < MaxEnhOps
    /\ IF ~env.fileUp THEN EnhRaised("enh_get", u)
       ELSE /\ userFiles' = EnhancedGetUserProfile(userFiles, u).files
            /\ lastOp' = [op |-> "enh_get", user |-> u, raised |-> FALSE,
                          stored |-> userFiles[u],
                          result |-> EnhancedGetUserProfile(userFiles, u).profile]
    /\ calls' = calls + 1
    /\ UNCHANGED <<trackVars, agentVars, storeVars>>

\* record_learning_interaction: update_user_learning_progress as one call
EnhRecordInteraction(u, topic, env) ==
    /\ calls < MaxEnhOps
    /\ IF ~env.fileUp THEN EnhRaised("enh_record", u)
       ELSE LET g == EnhancedGetUserProfile(userFiles, u)
            IN  /\ userFiles' = [g.files EXCEPT ![u] = EnhancedMutation(g.profile, topic)]
                /\ lastOp' = [op |-> "enh_record", user |-> u, raised |-> FALSE]
    /\ calls' = calls + 1
    /\ UNCHANGED <<trackVars, agentVars, storeVars>>

\* the level the endpoint stores: profile['skill_level'] = assessed_level.value
StoredSkillLevel(stored, assessed) == assessed

\* assess_user_skill_level
AssessUserSkillLevel(u, samples, env) ==
    /\ calls < MaxEnhOps
    /\ IF ~env.fileUp THEN EnhRaised("assess", u)
       ELSE LET g == EnhancedGetUserProfile(userFiles, u)
                level == StoredSkillLevel(g.profile.skill_level, AssessSkillLevel(samples))
            IN  /\ userFiles' = [g.files EXCEPT ![u] = [g.profile EXCEPT !.skill_level = level]]
                /\ lastOp' = [op |-> "assess", user |-> u, raised |-> FALSE]
    /\ calls' = calls + 1
    /\ UNCHANGED <<trackVars, agentVars, storeVars>>

InitEnhanced ==
    /\ advFile = NoFile
    /\ req = ParkedReq
    /\ userFiles = NoUserFiles
    /\ calls = 0
    /\ ParkedStore
    /\ ParkedAgent

NextEnhanced ==
    \E u \in FileKeys, env \in Envs :
        \/ EnhGetUserProfile(u, env)
        \/ \E topic \in AreaTopics : EnhRecordInteraction(u, topic, env)
        \/ \E samples \in CodeSamples : AssessUserSkillLevel(u, samples, env)

SpecEnhanced == InitEnhanced /\ [][NextEnhanced]_vars

\* The enhanced agent started on a profile directory that the user context manager
\* has written to: both name the file user_profiles/user_<id>.json
InitMigrate ==
    /\ advFile = NoFile
    /\ req = ParkedReq
    /\ userFiles \in [FileKeys -> {NoFile} \cup {DefaultContext(u) : u \in FileKeys}]
    /\ calls = 0
    /\ ParkedStore
    /\ ParkedAgent

SpecMigrate == InitMigrate /\ [][NextEnhanced]_vars

\* C13: the profile a load returns for a stored profile holds every stored key with
\* its stored value
C13_MigrationOnlyAdds ==
    (lastOp.op = "enh_get" /\ ~lastOp.raised /\ lastOp.stored # NoFile)
        => \A key \in DOMAIN lastOp.stored :
              key \in DOMAIN lastOp.result /\ lastOp.result[key] = lastOp.stored[key]

\* beginner < intermediate < advanced < expert
Rank(level) ==
    CASE level = "beginner" -> 0
      [] level = "intermediate" -> 1
      [] level = "advanced" -> 2
      [] level = "expert" -> 3

\* C7: no step changes a stored global skill_level to a lower level
C7_SkillLevelNeverLowered ==
    [][\A k \in FileKeys :
          (userFiles[k] # NoFile /\ userFiles'[k] # NoFile)
              => Rank(userFiles'[k].skill_level) >= Rank(userFiles[k].skill_level)]_vars

\* C8: skill_level becomes intermediate only with interactions_count > 20 and becomes
\* advanced only with interactions_count > 50, and changes in no other way (the claim's
\* further condition on the average recent success only narrows these cases)
C8_SkillLevelThresholds ==
    [][\A k \in FileKeys :
          (userFiles[k] # NoFile /\ userFiles'[k] # NoFile
              /\ userFiles'[k].skill_level # userFiles[k].skill_level)
              => \/ /\ userFiles'[k].skill_level = "intermediate"
                    /\ userFiles'[k].interactions_count > 20
                 \/ /\ userFiles'[k].skill_level = "advanced"
                    /\ userFiles'[k].interactions_count > 50]_vars

----------------------------------------------------------------------------
(* Query text.  A query is the sequence of its characters, so that the     *)
(* substring, prefix and word-count tests of the classifiers are computed  *)
(* as the code computes them.                                              *)

\* sub in s
Contains(s, sub) ==
    \E i \in 1..(Len(s) - Len(sub) + 1) : SubSeq(s, i, i + Len(sub) - 1) = sub

\* s.startswith(prefix)
StartsWith(s, prefix) == Len(prefix) <= Len(s) /\ SubSeq(s, 1, Len(prefix)) = prefix

\* len(s.split()): the maximal runs of non-blank characters
WordCount(s) ==
    Cardinality({i \in 1..Len(s) : s[i] # " " /\ (i = 1 \/ s[i - 1] = " ")})

UpperToLower ==
    [c \in {"A", "B", "C", "D", "E", "F", "G", "H", "I", "J", "K", "L", "M", "N", "O", "P",
             "Q", "R", "S", "T", "U", "V", "W", "X", "Y", "Z"} |->
        CASE c = "A" -> "a" [] c = "B" -> "b" [] c = "C" -> "c" [] c = "D" -> "d"
          [] c = "E" -> "e" [] c = "F" -> "f" [] c = "G" -> "g" [] c = "H" -> "h"
          [] c = "I" -> "i" [] c = "J" -> "j" [] c = "K" -> "k" [] c = "L" -> "l"
          [] c = "M" -> "m" [] c = "N" -> "n" [] c = "O" -> "o" [] c = "P" -> "p"
          [] c = "Q" -> "q" [] c = "R" -> "r" [] c = "S" -> "s" [] c = "T" -> "t"
          [] c = "U" -> "u" [] c = "V" -> "v" [] c = "W" -> "w" [] c = "X" -> "x"
          [] c = "Y" -> "y" [] c = "Z" -> "z"]

\* s.lower()
Lower(s) == [i \in 1..Len(s) |-> IF s[i] \in DOMAIN UpperToLower THEN UpperToLower[s[i]] ELSE s[i]]

\* s.strip() for blanks
RECURSIVE Strip(_)
Strip(s) ==
    IF s = <<>> THEN s
    ELSE IF Head(s) = " " THEN Strip(Tail(s))
    ELSE IF s[Len(s)] = " " THEN Strip(SubSeq(s, 1, Len(s) - 1))
    ELSE s

ContainsAny(s, phrases) == \E p \in phrases : Contains(s, p)

\* personalization_agent.py, _is_greeting_or_casual: greetings
GreetingsA == {
    <<"h", "i">>,
    <<"h", "e", "l", "l", "o">>,
    <<"h", "e", "y">>,
    <<"h", "o", "w", "d", "y">>,
    <<"g", "r", "e", "e", "t", "i", "n", "g", "s">>,
    <<"h", "o", "w", " ", "a", "r", "e", " ", "y", "o", "u">>,
    <<"w", "h", "a", "t", "'", "s", " ", "u", "p">>,
    <<"g", "o", "o", "d", " ", "m", "o", "r", "n", "i", "n", "g">>,
    <<"g", "o", "o", "d", " ", "a", "f", "t", "e", "r", "n", "o", "o", "n">>,
    <<"g", "o", "o", "d", " ", "e", "v", "e", "n", "i", "n", "g">>,
    <<"g", "o", "o", "d", " ", "d", "a", "y">>,
    <<"n", "i", "c", "e", " ", "t", "o", " ", "m", "e", "e", "t", " ", "y", "o", "u">>}

\* personalization_agent.py, _is_profile_or_memory_query: memory_keywords
MemoryKeywordsA == {
    <<"m", "e", "m", "o", "r", "y">>,
    <<"r", "e", "m", "e", "m", "b", "e", "r">>,
    <<"k", "n", "o", "w", " ", "a", "b", "o", "u", "t", " ", "m", "e">>,
    <<"t", "e", "l", "l", " ", "m", "e", " ", "a", "b", "o", "u", "t", " ", "m", "y", "s", "e", "l", "f">>,
    <<"w", "h", "a", "t", " ", "d", "o", " ", "y", "o", "u", " ", "k", "n", "o", "w">>,
    <<"p", "r", "o", "f", "i", "l", "e">>,
    <<"i", "n", "f", "o", "r", "m", "a", "t", "i", "o", "n", " ", "a", "b", "o", "u", "t", " ", "m", "e">>,
    <<"w", "h", "o", " ", "a", "m", " ", "i">>,
    <<"a", "b", "o", "u", "t", " ", "m", "e">>,
    <<"m", "y", " ", "i", "n", "f", "o", "r", "m", "a", "t", "i", "o", "n">>,
    <<"w", "h", "a", "t", "'", "s", " ", "i", "n", " ", "y", "o", "u", "r", " ", "m", "e", "m", "o", "r", "y">>,
    <<"d", "o", " ", "y", "o", "u", " ", "r", "e", "m", "e", "m", "b", "e", "r", " ", "m", "e">>,
    <<"w", "h", "a", "t", " ", "d", "o", " ", "y", "o", "u", " ", "r", "e", "m", "e", "m", "b", "e", "r">>,
    <<"m", "y", " ", "d", "e", "t", "a", "i", "l", "s">>,
    <<"m", "y", " ", "d", "a", "t", "a">>,
    <<"m", "y", " ", "g", "o", "a", "l", "s">>,
    <<"w", "h", "a", "t", " ", "a", "r", "e", " ", "m", "y", " ", "g", "o", "a", "l", "s">>,
    <<"m", "y", " ", "l", "e", "a", "r", "n", "i", "n", "g", " ", "g", "o", "a", "l", "s">>,
    <<"m", "y", " ", "o", "b", "j", "e", "c", "t", "i", "v", "e", "s">>,
    <<"m", "y", " ", "s", "k", "i", "l", "l", "s">>,
    <<"w", "h", "a", "t", " ", "a", "r", "e", " ", "m", "y", " ", "s", "k", "i", "l", "l", "s">>,
    <<"m", "y", " ", "i", "n", "t", "e", "r", "e", "s", "t", "s">>,
    <<"m", "y", " ", "p", "r", "e", "f", "e", "r", "e", "n", "c", "e", "s">>,
    <<"m", "y", " ", "b", "a", "c", "k", "g", "r", "o", "u", "n", "d">>,
    <<"m", "y", " ", "e", "x", "p", "e", "r", "i", "e", "n", "c", "e">>,
    <<"m", "y", " ", "e", "d", "u", "c", "a", "t", "i", "o", "n">>,
    <<"m", "y", " ", "j", "o", "b">>,
    <<"m", "y", " ", "w", "o", "r", "k">>}

\* personalization_agent.py, _is_non_educational: non_educational_keywords
NonEducationalA == {
    <<"w", "h", "o", " ", "a", "r", "e", " ", "y", "o", "u">>,
    <<"w", "h", "a", "t", " ", "a", "r", "e", " ", "y", "o", "u">>,
    <<"y", "o", "u", "r", " ", "n", "a", "m", "e">>,
    <<"t", "e", "l", "l", " ", "m", "e", " ", "a", "b", "o", "u", "t", " ", "y", "o", "u", "r", "s", "e", "l", "f">>,
    <<"h", "o", "w", " ", "d", "o", " ", "y", "o", "u", " ", "w", "o", "r", "k">>,
    <<"w", "h", "a", "t", " ", "c", "a", "n", " ", "y", "o", "u", " ", "d", "o">>,
    <<"y", "o", "u", "r", " ", "c", "a", "p", "a", "b", "i", "l", "i", "t", "i", "e", "s">>,
    <<"h", "e", "l", "p", " ", "m", "e">>,
    <<"w", "e", "a", "t", "h", "e", "r">>,
    <<"n", "e", "w", "s">>,
    <<"t", "i", "m", "e">>,
    <<"d", "a", "t", "e">>,
    <<"j", "o", "k", "e">>,
    <<"t", "h", "a", "n", "k", "s">>,
    <<"t", "h", "a", "n", "k", " ", "y", "o", "u">>}

\* personalization_agent.py, _infer_topic: common_topics, in list order below
CommonTopicsA == {
    <<"a", "l", "g", "o", "r", "i", "t", "h", "m", "s">>,
    <<"d", "a", "t", "a", " ", "s", "t", "r", "u", "c", "t", "u", "r", "e", "s">>,
    <<"p", "r", "o", "g", "r", "a", "m", "m", "i", "n", "g">>,
    <<"m", "a", "t", "h", "e", "m", "a", "t", "i", "c", "s">>,
    <<"p", "h", "y", "s", "i", "c", "s">>,
    <<"c", "h", "e", "m", "i", "s", "t", "r", "y">>,
    <<"b", "i", "o", "l", "o", "g", "y">>,
    <<"m", "a", "c", "h", "i", "n", "e", " ", "l", "e", "a", "r", "n", "i", "n", "g">>}

\* personalization/agent.py, _is_greeting_or_casual: greetings
GreetingsB == {
    <<"h", "e", "l", "l", "o">>,
    <<"h", "i">>,
    <<"h", "e", "y">>,
    <<"g", "r", "e", "e", "t", "i", "n", "g", "s">>,
    <<"g", "o", "o", "d", " ", "m", "o", "r", "n", "i", "n", "g">>,
    <<"g", "o", "o", "d", " ", "a", "f", "t", "e", "r", "n", "o", "o", "n">>,
    <<"g", "o", "o", "d", " ", "e", "v", "e", "n", "i", "n", "g">>,
    <<"h", "o", "w", " ", "a", "r", "e", " ", "y", "o", "u">>,
    <<"w", "h", "a", "t", "'", "s", " ", "u", "p">>}

\* personalization/agent.py, _is_non_educational: non_educational
NonEducationalB == {
    <<"y", "o", "u", "r", " ", "n", "a", "m", "e">>,
    <<"w", "h", "o", " ", "a", "r", "e", " ", "y", "o", "u">>,
    <<"w", "h", "a", "t", " ", "c", "a", "n", " ", "y", "o", "u", " ", "d", "o">>,
    <<"h", "e", "l", "p", " ", "m", "e">>,
    <<"c", "r", "e", "a", "t", "e", "d", " ", "y", "o", "u">>,
    <<"m", "a", "d", "e", " ", "y", "o", "u">>,
    <<"a", "b", "o", "u", "t", " ", "y", "o", "u">>,
    <<"h", "o", "w", " ", "d", "o", " ", "y", "o", "u", " ", "w", "o", "r", "k">>}

\* main.py, query_documents_endpoint: profile_query_phrases
ProfileQueryPhrasesMain == {
    <<"a", "b", "o", "u", "t", " ", "m", "e">>,
    <<"d", "o", " ", "y", "o", "u", " ", "k", "n", "o", "w", " ", "m", "e">>,
    <<"w", "h", "o", " ", "a", "m", " ", "i">>,
    <<"m", "y", " ", "i", "n", "f", "o", "r", "m", "a", "t", "i", "o", "n">>,
    <<"w", "h", "a", "t", " ", "d", "o", " ", "y", "o", "u", " ", "k", "n", "o", "w", " ", "a", "b", "o", "u", "t", " ", "m", "e">>,
    <<"m", "y", " ", "g", "o", "a", "l", "s">>,
    <<"w", "h", "a", "t", " ", "a", "r", "e", " ", "m", "y", " ", "g", "o", "a", "l", "s">>,
    <<"m", "y", " ", "l", "e", "a", "r", "n", "i", "n", "g", " ", "g", "o", "a", "l", "s">>,
    <<"m", "y", " ", "o", "b", "j", "e", "c", "t", "i", "v", "e", "s">>,
    <<"m", "y", " ", "s", "k", "i", "l", "l", "s">>,
    <<"w", "h", "a", "t", " ", "a", "r", "e", " ", "m", "y", " ", "s", "k", "i", "l", "l", "s">>,
    <<"m", "y", " ", "i", "n", "t", "e", "r", "e", "s", "t", "s">>,
    <<"m", "y", " ", "p", "r", "e", "f", "e", "r", "e", "n", "c", "e", "s">>,
    <<"m", "y", " ", "b", "a", "c", "k", "g", "r", "o", "u", "n", "d">>,
    <<"m", "y", " ", "e", "x", "p", "e", "r", "i", "e", "n", "c", "e">>,
    <<"m", "y", " ", "e", "d", "u", "c", "a", "t", "i", "o", "n">>,
    <<"m", "y", " ", "p", "r", "o", "f", "i", "l", "e">>,
    <<"t", "e", "l", "l", " ", "m", "e", " ", "a", "b", "o", "u", "t", " ", "m", "y">>,
    <<"w", "h", "a", "t", "'", "s", " ", "m", "y">>,
    <<"s", "h", "o", "w", " ", "m", "e", " ", "m", "y">>,
    <<"i", "n", " ", "y", "o", "u", "r", " ", "m", "e", "m", "o", "r", "y">>,
    <<"w", "h", "a", "t", " ", "d", "o", " ", "y", "o", "u", " ", "r", "e", "m", "e", "m", "b", "e", "r">>,
    <<"o", "u", "r", " ", "c", "o", "n", "v", "e", "r", "s", "a", "t", "i", "o", "n">>,
    <<"w", "h", "a", "t", " ", "w", "e", " ", "d", "i", "s", "c", "u", "s", "s", "e", "d">>,
    <<"c", "o", "n", "v", "e", "r", "s", "a", "t", "i", "o", "n", " ", "h", "i", "s", "t", "o", "r", "y">>,
    <<"w", "h", "a", "t", " ", "d", "i", "d", " ", "w", "e", " ", "t", "a", "l", "k", " ", "a", "b", "o", "u", "t">>,
    <<"r", "e", "m", "e", "m", "b", "e", "r">>,
    <<"y", "e", "s", "t", "e", "r", "d", "a", "y">>,
    <<"e", "a", "r", "l", "i", "e", "r">>,
    <<"b", "e", "f", "o", "r", "e">>,
    <<"p", "r", "e", "v", "i", "o", "u", "s", "l", "y">>,
    <<"l", "a", "s", "t", " ", "t", "i", "m", "e">>}

\* main.py, query_documents_endpoint: greeting_phrases
GreetingPhrasesMain == {
    <<"h", "e", "l", "l", "o">>,
    <<"h", "i">>,
    <<"h", "e", "y">>,
    <<"g", "o", "o", "d", " ", "m", "o", "r", "n", "i", "n", "g">>,
    <<"g", "o", "o", "d", " ", "a", "f", "t", "e", "r", "n", "o", "o", "n">>,
    <<"g", "o", "o", "d", " ", "e", "v", "e", "n", "i", "n", "g">>}


IsGreetingOrCasualA(q) == ContainsAny(Lower(q), GreetingsA)
IsProfileOrMemoryQueryA(q) == ContainsAny(Lower(q), MemoryKeywordsA)
IsNonEducationalA(q) == ContainsAny(Lower(q), NonEducationalA) /\ ~IsProfileOrMemoryQueryA(q)

IsGreetingOrCasualB(q) == ContainsAny(Lower(q), GreetingsB)
IsNonEducationalB(q) == ContainsAny(Lower(q), NonEducationalB)

IsProfileQueryMain(q) == ContainsAny(Strip(Lower(q)), ProfileQueryPhrasesMain)
IsGreetingMain(q) == \E p \in GreetingPhrasesMain : StartsWith(Strip(Lower(q)), p)

\* personalization_agent.py, _infer_topic: the first common topic the query contains
InferTopicA(q) ==
    LET has(t) == Contains(Lower(q), t)
    IN  IF has(<<"a", "l", "g", "o", "r", "i", "t", "h", "m", "s">>) THEN "algorithms"
        ELSE IF has(<<"d", "a", "t", "a", " ", "s", "t", "r", "u", "c", "t", "u", "r", "e", "s">>) THEN "data structures"
        ELSE IF has(<<"p", "r", "o", "g", "r", "a", "m", "m", "i", "n", "g">>) THEN "programming"
        ELSE IF has(<<"m", "a", "t", "h", "e", "m", "a", "t", "i", "c", "s">>) THEN "mathematics"
        ELSE IF has(<<"p", "h", "y", "s", "i", "c", "s">>) THEN "physics"
        ELSE IF has(<<"c", "h", "e", "m", "i", "s", "t", "r", "y">>) THEN "chemistry"
        ELSE IF has(<<"b", "i", "o", "l", "o", "g", "y">>) THEN "biology"
        ELSE IF has(<<"m", "a", "c", "h", "i", "n", "e", " ", "l", "e", "a", "r", "n", "i", "n", "g">>) THEN "machine learning"
        ELSE "general"

\* personalization/agent.py, _infer_topic
InferTopicB(q) ==
    LET has(t) == Contains(Lower(q), t)
    IN  IF has(<<"p", "y", "t", "h", "o", "n">>) THEN "python"
        ELSE IF has(<<"j", "a", "v", "a", "s", "c", "r", "i", "p", "t">>) \/ has(<<"j", "s">>) THEN "javascript"
        ELSE IF has(<<"m", "a", "t", "h">>) \/ has(<<"c", "a", "l", "c", "u", "l", "u", "s">>) THEN "mathematics"
        ELSE IF has(<<"h", "i", "s", "t", "o", "r", "y">>) THEN "history"
        ELSE IF has(<<"p", "h", "y", "s", "i", "c", "s">>) THEN "physics"
        ELSE IF has(<<"c", "h", "e", "m", "i", "s", "t", "r", "y">>) THEN "chemistry"
        ELSE IF has(<<"b", "i", "o", "l", "o", "g", "y">>) THEN "biology"
        ELSE "general"

(* Queries *)
QHello == <<"H", "e", "l", "l", "o">>
QEmpty == <<>>
QWhatIsThis == <<"w", "h", "a", "t", " ", "i", "s", " ", "t", "h", "i", "s">>
QMyGoals == <<"w", "h", "a", "t", " ", "a", "r", "e", " ", "m", "y", " ", "g", "o", "a", "l", "s">>
QHelpMePhysics == <<"h", "e", "l", "p", " ", "m", "e", " ", "w", "i", "t", "h", " ", "p", "h", "y", "s", "i", "c", "s">>
QMyJob == <<"w", "h", "a", "t", " ", "i", "s", " ", "m", "y", " ", "j", "o", "b">>
QHistoryOfRome == <<"h", "i", "s", "t", "o", "r", "y", " ", "o", "f", " ", "R", "o", "m", "e">>
Queries == {QHello, QEmpty, QWhatIsThis, QHelpMePhysics, QMyGoals, QMyJob, QHistoryOfRome}

\* the classifiers applied to each query, evaluated once
Classified ==
    [q \in Queries |->
        [greetingA |-> IsGreetingOrCasualA(q), nonEducationalA |-> IsNonEducationalA(q),
         memoryA |-> IsProfileOrMemoryQueryA(q),
         shortA |-> WordCount(q) <= 3, topicA |-> InferTopicA(q),
         greetingB |-> IsGreetingOrCasualB(q), nonEducationalB |-> IsNonEducationalB(q),
         topicB |-> InferTopicB(q),
         profileMain |-> IsProfileQueryMain(q), greetingMain |-> IsGreetingMain(q)]]

----------------------------------------------------------------------------
(* The personalization agents.  Variant A is agents/personalization_agent.py *)
(* (profile row in the database table user_profiles, one instance per      *)
(* /query request of main.py); variant B is agents/personalization/agent.py *)
(* (profile file user_profiles/<user_id>.json, instances cached by the     *)
(* mounted router).  Where an operator takes a query q it also takes c,    *)
(* the classifiers applied to q (Classified[q]).                           *)

MaxAgentOps == 2            \* requests of one run of the personalization agents

HistoryCap == 100           \* personalization/agent.py: session_history[-100:]
FeedbackCap == 100          \* personalization/agent.py: feedback[-100:]
SkillIntermediateAfter == 20
SkillAdvancedAfter == 50
PriorInteractions == {0, HistoryCap}

\* datetime.now() of the request that follows `done` completed requests; the
\* n interactions of an initial profile carry the stamps 1..n
Now(done) == 1000 + done

(* Replies of the text-generation collaborator (chain.run).  A text reply  *)
(* is described by what the parsers look at: prose before the value, an    *)
(* opening brace, a closing brace after it, whether the value is valid     *)
(* JSON, and the decoded value.                                            *)
EducationalPayload ==
    [query_type |-> "educational", level |-> "advanced",
     learning_style |-> [list |-> <<"kinesthetic">>], tailored_query |-> "tailored"]
UntypedPayload == [level |-> "intermediate", learning_style |-> [list |-> <<>>]]
BadStylePayload ==
    [query_type |-> "educational", level |-> "beginner", learning_style |-> [num |-> 5]]
ListValue == [list |-> <<>>]

TextReply(prefix, open, close, valid, value) ==
    [raises |-> FALSE, prefix |-> prefix, open |-> open, close |-> close,
     valid |-> valid, value |-> value]
ObjectReply(payload) == TextReply(FALSE, TRUE, TRUE, TRUE, payload)    \* {"query_type": ...}
WrappedReply(payload) == TextReply(TRUE, TRUE, TRUE, TRUE, payload)    \* Sure! {"level": ...}
BrokenReply == TextReply(FALSE, TRUE, TRUE, FALSE, ListValue)          \* {oops}
ProseReply == TextReply(TRUE, FALSE, FALSE, FALSE, ListValue)          \* I cannot help
ArrayReply == TextReply(FALSE, FALSE, FALSE, TRUE, ListValue)          \* []
RaisingReply == [raises |-> TRUE]                                      \* chain.run raises
NotCalled == [raises |-> FALSE, unused |-> TRUE]
Replies == {ObjectReply(EducationalPayload), ObjectReply(BadStylePayload),
            WrappedReply(UntypedPayload), BrokenReply, ProseReply, ArrayReply, RaisingReply}
UnusableReplies == {BrokenReply, ProseReply, RaisingReply}

\* variant A: response[response.find("{") : response.rfind("}") + 1], json.loads
ExtractA(reply) ==
    IF reply.open /\ reply.close
    THEN IF reply.valid THEN [kind |-> "ok", value |-> reply.value]
         ELSE [kind |-> "JSONDecodeError"]
    ELSE [kind |-> "ValueError"]

\* variant B: json.loads(chain_response)
LoadsB(reply) ==
    IF ~reply.prefix /\ reply.valid /\ (reply.open <=> reply.close)
    THEN [kind |-> "ok", value |-> reply.value]
    ELSE [kind |-> "JSONDecodeError"]

IsDict(value) == "list" \notin DOMAIN value

(* Variant A *)
InteractionTypesNewA ==
    [t \in {"chat", "games", "voice", "visualize", "quiz", "greeting", "non_educational",
            "educational"} |-> 0]
InteractionTypesDefault == [t \in {"educational", "greeting", "non_educational"} |-> 0]

\* _create_new_user_profile
NewProfileA(u) ==
    [exists |-> TRUE, user_id |-> u, skill_level |-> "beginner", interactions_count |-> 0,
     preferred_learning_styles |-> <<"visual", "textual">>,
     interaction_types |-> InteractionTypesNewA, session_history |-> <<>>, feedback |-> <<>>]

\* _get_default_profile
DefaultProfileA(u) == [NewProfileA(u) EXCEPT !.interaction_types = InteractionTypesDefault]

SimpleGreetingA == [query_type |-> "greeting", response |-> "Hello! How can I help you learn today?"]
NonEducationalAnswerA ==
    [query_type |-> "non_educational",
     response |-> "I'm an AI educational assistant designed to help with your learning journey."]

SessionEntryA(q, c, response, qt, stamp) ==
    IF qt = "educational"
    THEN [timestamp |-> stamp, query |-> q, query_type |-> qt,
          inferred_level |-> GetOr(response, "level", "beginner"),
          inferred_learning_styles |-> GetOr(response, "learning_style", [list |-> <<>>]),
          topic |-> c.topicA]
    ELSE [timestamp |-> stamp, query |-> q, query_type |-> qt]

RECURSIVE AppendAllNew(_, _)
AppendAllNew(lst, xs) ==
    IF xs = <<>> THEN lst ELSE AppendAllNew(AppendNew(lst, Head(xs)), Tail(xs))

\* the skill-level rule of variant A's _update_profile_from_interaction
SkillLevelA(current, count, level) ==
    IF count > SkillAdvancedAfter
    THEN IF level = "advanced" THEN "advanced"
         ELSE IF level = "intermediate" /\ current = "beginner" THEN "intermediate"
         ELSE current
    ELSE IF count > SkillIntermediateAfter
    THEN IF level = "intermediate" /\ current = "beginner" THEN "intermediate" ELSE current
    ELSE current

\* variant A, _update_profile_from_interaction up to its save: the in-memory
\* profile afterwards, and whether an exception left the function before the save
UpdateProfileFromInteractionA(profile, q, c, response, stamp) ==
    LET counted == [profile EXCEPT !.interactions_count = @ + 1]
        qt == GetOr(response, "query_type", "educational")
        styles == GetOr(response, "learning_style", [list |-> <<>>])
        badStyles == qt = "educational" /\ "num" \in DOMAIN styles
        learned ==
            IF qt = "educational"
            THEN [counted EXCEPT
                    !.preferred_learning_styles = AppendAllNew(@, styles.list),
                    !.skill_level = SkillLevelA(@, counted.interactions_count,
                                                GetOr(response, "level", "None"))]
            ELSE counted
        typed ==
            IF qt \in {"greeting", "non_educational"}
            THEN [learned EXCEPT !.interaction_types = Put(@, qt, GetOr(@, qt, 0) + 1)]
            ELSE learned
    IN  IF badStyles
        THEN [profile |-> counted, raised |-> TRUE]
        ELSE [profile |-> [typed EXCEPT !.session_history =
                                Append(@, SessionEntryA(q, c, response, qt, stamp))],
              raised |-> FALSE]

\* the handler of json.JSONDecodeError in variant A's process_query
FallbackDecodeErrorA(profile, q, c) ==
    IF c.greetingA THEN SimpleGreetingA
    ELSE IF c.nonEducationalA THEN NonEducationalAnswerA
    ELSE [query_type |-> "educational", level |-> profile.skill_level,
          learning_style |-> IF profile.preferred_learning_styles # <<>>
                             THEN profile.preferred_learning_styles
                             ELSE <<"visual", "textual">>,
          tailored_query |-> q]

\* the handler of Exception in variant A's process_query
FallbackExceptionA(q, c) ==
    IF c.greetingA THEN SimpleGreetingA
    ELSE IF c.nonEducationalA THEN NonEducationalAnswerA
    ELSE [query_type |-> "educational", level |-> "beginner",
          learning_style |-> <<"visual", "textual">>, tailored_query |-> q]

\* process_query without the pre-check: every query goes to the collaborator
SkipsCollaboratorANoPreCheck(c) == FALSE

\* variant A, process_query: len(query.split()) <= 3 and _is_greeting_or_casual(query)
SkipsCollaboratorA(c) == c.shortA /\ c.greetingA

\* variant A, process_query: the result, the in-memory profile afterwards, whether
\* _save_user_profile was called, whether the collaborator was called, and
\* whether an exception reached the caller
ProcessQueryA(profile, q, c, reply, stamp) ==
    IF SkipsCollaboratorA(c)
    THEN [result |-> SimpleGreetingA,
          profile |-> UpdateProfileFromInteractionA(profile, q, c, SimpleGreetingA, stamp).profile,
          saves |-> TRUE, reached |-> FALSE, raised |-> FALSE]
    ELSE IF reply.raises
    THEN [result |-> FallbackExceptionA(q, c), profile |-> profile,
          saves |-> FALSE, reached |-> TRUE, raised |-> FALSE]
    ELSE LET parsed == ExtractA(reply)
         IN  IF parsed.kind = "ok"
             THEN LET upd == UpdateProfileFromInteractionA(profile, q, c, parsed.value, stamp)
                  IN  IF upd.raised
                      THEN [result |-> FallbackExceptionA(q, c), profile |-> upd.profile,
                            saves |-> FALSE, reached |-> TRUE, raised |-> FALSE]
                      ELSE [result |-> parsed.value, profile |-> upd.profile,
                            saves |-> TRUE, reached |-> TRUE, raised |-> FALSE]
             ELSE IF parsed.kind = "JSONDecodeError"
             THEN [result |-> FallbackDecodeErrorA(profile, q, c), profile |-> profile,
                   saves |-> FALSE, reached |-> TRUE, raised |-> FALSE]
             ELSE [result |-> FallbackExceptionA(q, c), profile |-> profile,
                   saves |-> FALSE, reached |-> TRUE, raised |-> FALSE]

\* the profile of variant A after n educational interactions at beginner level
PriorResponse == [query_type |-> "educational", level |-> "beginner"]
PriorProfileA(u, n) ==
    [NewProfileA(u) EXCEPT
        !.interactions_count = n,
        !.session_history = [i \in 1..n |-> SessionEntryA(QEmpty, Classified[QEmpty], PriorResponse, "educational", i)]]

(* Variant B *)
SaveOutcomes == {"ok", "io_error", "makedirs_error"}

\* _load_user_profile, no profile file and no user_profiles/default.json
NewProfileB ==
    [exists |-> TRUE, skill_level |-> "beginner", interactions_count |-> 0,
     preferred_learning_styles |-> <<"visual", "textual">>,
     knowledge_areas |-> EmptyDict, areas_for_improvement |-> <<>>, topic_interests |-> <<>>,
     interaction_types |-> InteractionTypesDefault, session_history |-> <<>>, feedback |-> <<>>]

GreetingAnswerB ==
    [query_type |-> "greeting", response |-> "Hello! How can I help with your learning today?"]
NonEducationalAnswerB ==
    [query_type |-> "non_educational",
     response |-> "I'm your AI learning assistant, designed to help you understand educational concepts in a personalized way."]

BasicResponseB(profile, q) ==
    [query_type |-> "educational", level |-> profile.skill_level,
     learning_style |-> profile.preferred_learning_styles,
     tailored_instruction |-> "Explain this concept clearly with examples.",
     tailored_query |-> q]

\* _save_user_profile: os.makedirs runs before the try, the write inside it
SaveUserProfileB(file, profile, outcome) ==
    [file |-> IF outcome = "ok" THEN [exists |-> TRUE, content |-> JsonDumps(profile)] ELSE file,
     raised |-> outcome = "makedirs_error"]

LoadProfileFileB(file) == JsonLoads(file.content)

\* log = log[-100:] once the log is longer than the cap
Capped(log, cap) == IF Len(log) > cap THEN LastN(log, cap) ELSE log

KnowledgeAreasB(ka, topic, stamp) ==
    IF topic \notin DOMAIN ka
    THEN Put(ka, topic, [interactions |-> 1, last_interaction |-> stamp,
                         estimated_skill |-> "beginner"])
    ELSE [ka EXCEPT ![topic].interactions = @ + 1, ![topic].last_interaction = stamp]

\* variant B, _update_profile_from_interaction: the in-memory profile and the
\* file afterwards, and whether an exception left the function
UpdateProfileFromInteractionB(profile, file, q, c, response, stamp, outcome) ==
    LET counted == [profile EXCEPT !.interactions_count = @ + 1]
    IN  IF ~IsDict(response)
        THEN [profile |-> counted, file |-> file, raised |-> TRUE]
        ELSE LET qt == GetOr(response, "query_type", "educational")
                 topic == c.topicB
                 typed == [counted EXCEPT !.interaction_types = Put(@, qt, GetOr(@, qt, 0) + 1)]
                 learned ==
                     IF qt = "educational"
                     THEN [typed EXCEPT
                             !.knowledge_areas = KnowledgeAreasB(@, topic, stamp),
                             !.topic_interests = AppendNew(@, topic)]
                     ELSE typed
                 entry ==
                     IF qt = "educational"
                     THEN [timestamp |-> stamp, query |-> q, query_type |-> qt, topic |-> topic]
                     ELSE [timestamp |-> stamp, query |-> q, query_type |-> qt]
                 logged == [learned EXCEPT !.session_history =
                                Capped(Append(@, entry), HistoryCap)]
                 saved == SaveUserProfileB(file, logged, outcome)
             IN  [profile |-> logged, file |-> saved.file, raised |-> saved.raised]

SkipsCollaboratorB(c) == c.greetingB \/ c.nonEducationalB

\* variant B, process_query: the result, the in-memory profile and the file
\* afterwards, whether the collaborator was called, and whether an exception
\* reached the caller
ProcessQueryB(profile, file, q, c, reply, stamp, outcome) ==
    LET Update(p, f, response) == UpdateProfileFromInteractionB(p, f, q, c, response, stamp, outcome)
        Done(upd, response, reached) ==
            [result |-> response, profile |-> upd.profile, file |-> upd.file,
             reached |-> reached, raised |-> upd.raised]
        \* except Exception: the basic response, and one more profile update
        Handler(p, f) == Done(Update(p, f, BasicResponseB(p, q)), BasicResponseB(p, q), TRUE)
    IN  IF c.greetingB THEN Done(Update(profile, file, GreetingAnswerB), GreetingAnswerB, FALSE)
        ELSE IF c.nonEducationalB
        THEN Done(Update(profile, file, NonEducationalAnswerB), NonEducationalAnswerB, FALSE)
        ELSE IF reply.raises THEN Handler(profile, file)
        ELSE LET parsed == LoadsB(reply)
                 response == IF parsed.kind = "ok" THEN parsed.value
                             ELSE BasicResponseB(profile, q)
                 upd == Update(profile, file, response)
             IN  IF upd.raised THEN Handler(upd.profile, upd.file)
                 ELSE Done(upd, response, TRUE)

\* variant B, provide_feedback
ProvideFeedbackB(profile, file, q, c, was_helpful, stamp, outcome) ==
    LET topic == c.topicB
        entry == [timestamp |-> stamp, query |-> q, was_helpful |-> was_helpful]
        logged == [profile EXCEPT !.feedback = Capped(Append(@, entry), FeedbackCap)]
        adjusted ==
            IF was_helpful THEN logged
            ELSE [logged EXCEPT
                    !.knowledge_areas =
                        IF topic \in DOMAIN @
                        THEN [@ EXCEPT ![topic].estimated_skill = "beginner"] ELSE @,
                    !.areas_for_improvement = AppendNew(@, topic)]
        saved == SaveUserProfileB(file, adjusted, outcome)
    IN  [profile |-> adjusted, file |-> saved.file, raised |-> saved.raised]

\* the profile of variant B after n educational interactions, each followed by
\* a helpful feedback
PriorProfileB(n) ==
    IF n = 0 THEN NewProfileB
    ELSE [NewProfileB EXCEPT
            !.interactions_count = n,
            !.interaction_types = [@ EXCEPT !["educational"] = n],
            !.knowledge_areas = Put(@, "general", [interactions |-> n, last_interaction |-> n,
                                                   estimated_skill |-> "beginner"]),
            !.topic_interests = <<"general">>,
            !.session_history = [i \in 1..n |-> [timestamp |-> i, query |-> QEmpty,
                                                 query_type |-> "educational",
                                                 topic |-> "general"]],
            !.feedback = [i \in 1..n |-> [timestamp |-> i, query |-> QEmpty,
                                          was_helpful |-> TRUE]]]

(* Requests *)
DbEnvs == [loadUp : BOOLEAN, saveUp : BOOLEAN]
AllUp == [loadUp |-> TRUE, saveUp |-> TRUE]

\* variant A, __init__ and _load_user_profile: the row, a new row inserted, or
\* the in-memory default profile when the database cannot be read
LoadUserProfileA(rows, u, up) ==
    IF ~up THEN [profile |-> DefaultProfileA(u), rows |-> rows]
    ELSE IF rows[u] # NoRow THEN [profile |-> rows[u], rows |-> rows]
    ELSE [profile |-> NewProfileA(u), rows |-> [rows EXCEPT ![u] = NewProfileA(u)]]

\* variant A, _save_user_profile: the upsert, its failure logged
SaveUserProfileA(rows, u, profile, up) == IF up THEN [rows EXCEPT ![u] = profile] ELSE rows

\* the profile a file of variant B holds, if the file exists
StoredProfileB(file) == IF file.exists THEN LoadProfileFileB(file) ELSE NoFile

\* what one request added to a profile: the growth of interactions_count, and
\* the session_history entries that carry the request's timestamp
Delta(before, after, stamp) ==
    LET count(p) == IF p.exists THEN p.interactions_count ELSE 0
        history == IF after.exists THEN after.session_history ELSE <<>>
    IN  [counted |-> count(after) - count(before),
         logged |-> Cardinality({i \in 1..Len(history) : history[i].timestamp = stamp})]

\* what a fallback answer takes from the profile
Glance(profile) ==
    [skill_level |-> profile.skill_level,
     preferred_learning_styles |-> profile.preferred_learning_styles]

Remember(first, variant, u, id) ==
    IF first[variant][u] = 0 THEN [first EXCEPT ![variant][u] = id] ELSE first

\* main.py, query_documents_endpoint for a request whose user_context carries
\* no personalization instructions (enhanced_query = query), up to the
\* personalization data it goes on to answer with
QueryDocumentsEndpoint(u, q, c, reply, env) ==
    /\ calls < MaxAgentOps
    /\ calls' = calls + 1
    /\ IF c.profileMain \/ c.greetingMain \/ u = "guest_user"
       THEN /\ reply = NotCalled
            /\ env = AllUp
            /\ lastOp' = [op |-> "query", user |-> u, query |-> q,
                          answered |-> IF c.profileMain THEN "profile"
                                       ELSE IF c.greetingMain THEN "greeting"
                                       ELSE "guest"]
            /\ UNCHANGED <<dbRows, firstAgent>>
       ELSE /\ SkipsCollaboratorA(c) <=> reply = NotCalled
            /\ LET agent == calls + 1
                   loaded == LoadUserProfileA(dbRows, u, env.loadUp)
                   pq == ProcessQueryA(loaded.profile, q, c, reply, Now(calls))
               IN  /\ ~pq.saves => env.saveUp
                   /\ dbRows' = IF pq.saves
                                THEN SaveUserProfileA(loaded.rows, u, pq.profile, env.saveUp)
                                ELSE loaded.rows
                   /\ firstAgent' = Remember(firstAgent, "A", u, agent)
                   /\ lastOp' = [op |-> "process_query", variant |-> "A", user |-> u,
                                 query |-> q, reply |-> reply, agent |-> agent,
                                 before |-> Glance(loaded.profile), reached |-> pq.reached,
                                 raised |-> pq.raised, result |-> pq.result,
                                 mutated |-> pq.profile # loaded.profile,
                                 memory |-> Delta(loaded.profile, pq.profile, Now(calls)),
                                 stored |-> Delta(dbRows[u], dbRows'[u], Now(calls))]
    /\ UNCHANGED <<trackVars, userFiles, supabaseOn, user_contexts, putDb, putFile,
                   agent_cache, agentFiles>>

\* personalization/router.py, get_agent with the constructor of variant B
GetAgent(cache, files, u, id, outcome) ==
    IF cache[u] # NoAgent
    THEN [agent |-> cache[u], files |-> files, raised |-> FALSE, created |-> FALSE]
    ELSE IF files[u] # NoFile
    THEN [agent |-> [exists |-> TRUE, id |-> id, user_profile |-> LoadProfileFileB(files[u])],
          files |-> files, raised |-> FALSE, created |-> TRUE]
    ELSE LET saved == SaveUserProfileB(files[u], NewProfileB, outcome)
         IN  [agent |-> [exists |-> TRUE, id |-> id, user_profile |-> NewProfileB],
              files |-> [files EXCEPT ![u] = saved.file],
              raised |-> saved.raised, created |-> ~saved.raised]

\* the fields of router.py's PersonalizationResponse
ResponseFields ==
    {"level", "learning_style", "emphasis", "knowledge_gaps", "connections",
     "tailored_instruction"}

\* the constructor raised: the endpoint answers 500 and caches nothing
ConstructionFailed(op, u) ==
    /\ lastOp' = [op |-> "construct_failed", endpoint |-> op, user |-> u, status |-> 500]
    /\ UNCHANGED <<agent_cache, agentFiles, firstAgent>>

\* personalization/router.py, POST /personalize
PersonalizeExplanation(u, q, c, reply, outcome) ==
    /\ calls < MaxAgentOps
    /\ calls' = calls + 1
    /\ SkipsCollaboratorB(c) <=> reply = NotCalled
    /\ LET got == GetAgent(agent_cache, agentFiles, u, calls + 1, outcome)
       IN  IF got.raised THEN ConstructionFailed("personalize", u)
           ELSE LET before == got.agent.user_profile
                    pq == ProcessQueryB(before, got.files[u], q, c, reply, Now(calls), outcome)
                IN  /\ agent_cache' = [agent_cache EXCEPT
                                         ![u] = [got.agent EXCEPT !.user_profile = pq.profile]]
                    /\ agentFiles' = [got.files EXCEPT ![u] = pq.file]
                    /\ firstAgent' = Remember(firstAgent, "B", u, got.agent.id)
                    /\ lastOp' = [op |-> "process_query", variant |-> "B", user |-> u,
                                  query |-> q, reply |-> reply, agent |-> got.agent.id,
                                  before |-> Glance(before), reached |-> pq.reached,
                                  raised |-> pq.raised, result |-> pq.result,
                                  mutated |-> pq.profile # before,
                                  memory |-> Delta(before, pq.profile, Now(calls)),
                                  stored |-> Delta(StoredProfileB(agentFiles[u]),
                                                   StoredProfileB(pq.file), Now(calls)),
                                  status |-> IF ~pq.raised /\ ResponseFields \subseteq DOMAIN pq.result
                                             THEN 200 ELSE 500]
    /\ UNCHANGED <<trackVars, userFiles, storeVars>>

\* personalization/router.py, POST /feedback
ProvideFeedback(u, q, c, was_helpful, outcome) ==
    /\ calls < MaxAgentOps
    /\ calls' = calls + 1
    /\ LET got == GetAgent(agent_cache, agentFiles, u, calls + 1, outcome)
       IN  IF got.raised THEN ConstructionFailed("feedback", u)
           ELSE LET before == got.agent.user_profile
                    fb == ProvideFeedbackB(before, got.files[u], q, c, was_helpful, Now(calls), outcome)
                IN  /\ agent_cache' = [agent_cache EXCEPT
                                         ![u] = [got.agent EXCEPT !.user_profile = fb.profile]]
                    /\ agentFiles' = [got.files EXCEPT ![u] = fb.file]
                    /\ firstAgent' = Remember(firstAgent, "B", u, got.agent.id)
                    /\ lastOp' = [op |-> "feedback", variant |-> "B", user |-> u, query |-> q,
                                  agent |-> got.agent.id, raised |-> fb.raised,
                                  mutated |-> fb.profile # before,
                                  status |-> IF fb.raised THEN 500 ELSE 200]
    /\ UNCHANGED <<trackVars, userFiles, storeVars>>

FeedbackQueries == {QEmpty, QHelpMePhysics}

InitAgent ==
    /\ advFile = NoFile
    /\ userFiles = NoUserFiles
    /\ req = ParkedReq
    /\ calls = 0
    /\ supabaseOn = FALSE
    /\ user_contexts = [u \in StoreUsers |-> NoCtx]
    /\ putDb = [u \in StoreUsers |-> NoCtx]
    /\ putFile = [u \in StoreUsers |-> NoCtx]
    /\ \E n \in PriorInteractions :
          /\ dbRows = [u \in AgentUsers |-> IF n = 0 THEN NoRow ELSE PriorProfileA(u, n)]
          /\ agentFiles = [u \in AgentUsers |->
                              IF n = 0 THEN NoFile
                              ELSE SaveUserProfileB(NoFile, PriorProfileB(n), "ok").file]
    /\ agent_cache = [u \in AgentUsers |-> NoAgent]
    /\ firstAgent = [v \in Variants |-> [u \in AgentUsers |-> 0]]
    /\ lastOp = [op |-> "none"]

NextAgent ==
    \/ \E u \in AgentUsers, q \in Queries, reply \in Replies \cup {NotCalled}, env \in DbEnvs :
          QueryDocumentsEndpoint(u, q, Classified[q], reply, env)
    \/ \E u \in AgentUsers, q \in Queries, reply \in Replies \cup {NotCalled},
          outcome \in SaveOutcomes : PersonalizeExplanation(u, q, Classified[q], reply, outcome)
    \/ \E u \in AgentUsers, q \in FeedbackQueries, was_helpful \in BOOLEAN,
          outcome \in SaveOutcomes : ProvideFeedback(u, q, Classified[q], was_helpful, outcome)

SpecAgent == InitAgent /\ [][NextAgent]_vars

InArrivalOrder(log) == \A i \in 1..(Len(log) - 1) : log[i].timestamp <= log[i + 1].timestamp
WithinCaps(profile) ==
    /\ Len(profile.session_history) <= HistoryCap
    /\ Len(profile.feedback) <= FeedbackCap
    /\ InArrivalOrder(profile.session_history)
    /\ InArrivalOrder(profile.feedback)

\* C4: in every stored or cached profile of either variant, session_history and
\* the feedback log hold at most 100 entries, in arrival order
C4_LogsWithinCap ==
    \A u \in AgentUsers :
        /\ dbRows[u] # NoRow => WithinCaps(dbRows[u])
        /\ agentFiles[u] # NoFile => WithinCaps(LoadProfileFileB(agentFiles[u]))
        /\ agent_cache[u] # NoAgent => WithinCaps(agent_cache[u].user_profile)

\* C5: process_query of either variant never raises to its caller, whatever the
\* query, the collaborator's reply and the outcome of the profile update and save
C5_ProcessQueryNeverRaises == lastOp.op = "process_query" => ~lastOp.raised

\* C6: when the collaborator was called and its reply cannot be used, process_query
\* returns the educational fallback built from the profile and the query
C6_UniformFallback ==
    (lastOp.op = "process_query" /\ lastOp.reached /\ lastOp.reply \in UnusableReplies)
        => /\ ~lastOp.raised
           /\ lastOp.result.query_type = "educational"
           /\ lastOp.result.level = lastOp.before.skill_level
           /\ lastOp.result.learning_style = lastOp.before.preferred_learning_styles
           /\ lastOp.result.tailored_query = lastOp.query

\* C9: every request that mutates a user's profile does so through the agent
\* instance first created for that user in this process
C9_SingleAgentPerUser ==
    (lastOp.op \in {"process_query", "feedback"} /\ lastOp.mutated)
        => lastOp.agent = firstAgent[lastOp.variant][lastOp.user]


\* the query holds a profile/memory phrase of main.py or of variant A
HoldsProfilePhrase == [q \in Queries |-> Classified[q].profileMain \/ Classified[q].memoryA]

\* the query type a request was answered with: main.py's own answer, or the
\* query_type of the result of process_query ("absent" when it has none)
AnsweredType ==
    IF lastOp.op = "query" THEN lastOp.answered
    ELSE IF lastOp.raised THEN "raised"
    ELSE IF "query_type" \in DOMAIN lastOp.result THEN lastOp.result.query_type
    ELSE "absent"

\* C14: a /query request whose query holds a profile/memory phrase is answered as
\* a profile query, by main.py itself ("profile") or by variant A's process_query
\* (query_type profile_query), whatever the collaborator replies
C14_ProfilePhraseFirst ==
    (/\ lastOp.op \in {"query", "process_query"}
     /\ lastOp.op = "process_query" => lastOp.variant = "A"
     /\ HoldsProfilePhrase[lastOp.query])
        => AnsweredType \in {"profile", "profile_query"}

\* the lower-case letters
Letters == {UpperToLower[c] : c \in DOMAIN UpperToLower}

\* phrase is the whole of s, or leads it and is followed by something other
\* than a letter
LeadingPhrase(s, phrase) ==
    /\ StartsWith(s, phrase)
    /\ Len(s) > Len(phrase) => s[Len(phrase) + 1] \notin Letters

\* the query is, or begins with, a greeting phrase of main.py or of variant A
LeadingGreeting ==
    [q \in Queries |->
        \E p \in GreetingPhrasesMain \cup GreetingsA : LeadingPhrase(Strip(Lower(q)), p)]

\* C15: a request answered as a greeting by the deterministic rules (main.py's
\* greeting branch, or variant A's fast path, which does not call the
\* collaborator) has a query that is a greeting phrase or begins with one as a
\* whole word: "history of Rome" and "what is this" are not answered as greetings
C15_GreetingNotInsideWord ==
    (\/ lastOp.op = "query" /\ lastOp.answered = "greeting"
     \/ /\ lastOp.op = "process_query" /\ lastOp.variant = "A"
        /\ ~lastOp.reached /\ AnsweredType = "greeting")
        => LeadingGreeting[lastOp.query]


QueryTypes == {"greeting", "non_educational", "profile_query", "educational"}

\* the keys every educational fallback of both variants carries
EducationalKeys == {"level", "learning_style", "tailored_query"}

\* C20: every result process_query returns has one of the four query types, and
\* an educational result has the keys of an educational answer; a reply of the
\* collaborator that parses but lacks them is not returned as the result
C20_ResultsValidated ==
    (lastOp.op = "process_query" /\ ~lastOp.raised)
        => /\ AnsweredType \in QueryTypes
           /\ AnsweredType = "educational" => EducationalKeys \subseteq DOMAIN lastOp.result

\* C21: what a processed query adds to the profile is all or nothing, in the
\* agent's memory and in the store: interactions_count has grown by one exactly
\* when the session_history holds the entry of this query, and by no more
C21_MutationAllOrNothing ==
    lastOp.op = "process_query"
        => /\ lastOp.memory.counted = lastOp.memory.logged
           /\ lastOp.stored.counted = lastOp.stored.logged
           /\ lastOp.memory.counted \in {0, 1}

(* The requests that carry the query "hello", among educational ones that  *)
(* fill the profiles' histories with the collaborator's replies.           *)
HelloQueries == {QHello, QHelpMePhysics}

NextHello ==
    \/ \E u \in AgentUsers, q \in HelloQueries, reply \in Replies \cup {NotCalled}, env \in DbEnvs :
          QueryDocumentsEndpoint(u, q, Classified[q], reply, env)
    \/ \E u \in AgentUsers, q \in HelloQueries, reply \in Replies \cup {NotCalled},
          outcome \in SaveOutcomes : PersonalizeExplanation(u, q, Classified[q], reply, outcome)
    \/ \E u \in AgentUsers, q \in FeedbackQueries, was_helpful \in BOOLEAN,
          outcome \in SaveOutcomes : ProvideFeedback(u, q, Classified[q], was_helpful, outcome)

SpecHello == InitAgent /\ [][NextHello]_vars

\* process_query("hello") of variant A on the profile loaded for u, should the
\* collaborator answer `reply`
HelloA(u, reply, loadUp) ==
    ProcessQueryA(LoadUserProfileA(dbRows, u, loadUp).profile, QHello, Classified[QHello],
                  reply, Now(calls))

\* process_query("hello") of variant B on the agent the router hands out for u
HelloB(u, reply, outcome) ==
    LET got == GetAgent(agent_cache, agentFiles, u, calls + 1, outcome)
    IN  IF got.raised THEN [reached |-> FALSE, raised |-> TRUE]
        ELSE ProcessQueryB(got.agent.user_profile, got.files[u], QHello, Classified[QHello],
                           reply, Now(calls), outcome)

\* C16: "hello" is answered as a greeting without the collaborator: main.py answers
\* it in its greeting branch, and in every reachable state process_query("hello")
\* of either variant gives for every reply of the collaborator the outcome it
\* gives when the collaborator fails, does not call it, and returns query_type
\* greeting
C16_HelloWithoutCollaborator ==
    /\ Classified[QHello].greetingMain /\ ~Classified[QHello].profileMain
    /\ \A u \in AgentUsers :
          /\ \A loadUp \in BOOLEAN :
                LET failed == HelloA(u, RaisingReply, loadUp)
                IN  /\ ~failed.reached /\ ~failed.raised
                    /\ failed.result.query_type = "greeting"
                    /\ \A reply \in Replies : HelloA(u, reply, loadUp) = failed
          /\ \A outcome \in SaveOutcomes :
                LET failed == HelloB(u, RaisingReply, outcome)
                IN  /\ ~failed.reached
                    /\ ~failed.raised => failed.result.query_type = "greeting"
                    /\ \A reply \in Replies : HelloB(u, reply, outcome) = failed
    /\ (lastOp.op \in {"query", "process_query"} /\ lastOp.query = QHello)
          => \/ lastOp.op = "query" /\ lastOp.answered = "greeting"
             \/ /\ lastOp.op = "process_query" /\ ~lastOp.reached /\ lastOp.reply = NotCalled
                /\ AnsweredType \in {"greeting", "raised"}

\* "hello" was answered by process_query after an educational request had put a
\* reply of the collaborator into the profile
C16_Witness ==
    /\ lastOp.op = "process_query" /\ lastOp.query = QHello
    /\ ~lastOp.raised /\ lastOp.result.query_type = "greeting"
    /\ lastOp.mutated
    /\ calls = 2
    /\ \E u \in AgentUsers : agent_cache[u] # NoAgent


----------------------------------------------------------------------------
(* Recommendations: personalization/user_context.py, class UserContext.    *)
(* A recommendation is kept by what identifies it (its topic or its id), a *)
(* next step by its kind and topic.                                        *)

InSeq(x, lst) == \E i \in 1..Len(lst) : lst[i] = x
FirstN(lst, n) == SubSeq(lst, 1, Min(n, Len(lst)))

IsJsonText(v) == Len(v) = 2 /\ v[1] = "json"

\* the characters of json.dumps(lst): the brackets, and the quotes of each element
TextChars(text) ==
    <<"[">> \o [i \in 1..(2 * Len(JsonLoads(text))) |-> "\""] \o <<"]">>

\* `for goal in goals`: the elements of a list, the characters of a text
GoalItems(goals) == IF IsJsonText(goals) THEN TextChars(goals) ELSE goals

\* the first of _extract_topic_from_goal's common topics that goal.lower() contains
CommonTopicOf(goal) ==
    CASE goal = "learn python" -> "python"
      [] goal = "learn sql" -> "sql"
      [] goal = "master algorithms" -> "algorithms"
      [] OTHER -> None

\* _extract_topic_from_goal: without a Gemini model the common topics; with one,
\* the text it answers, or None when it answers nothing or raises
GeminiModes == {"absent", "answers", "fails"}
ExtractTopicFromGoal(goal, gemini) ==
    IF gemini = "absent" THEN CommonTopicOf(goal)
    ELSE IF gemini = "answers" THEN "inferred topic"
    ELSE None

\* the loop over the goals of _get_flashcard_recommendations
RECURSIVE FlashcardsFromGoals(_, _, _)
FlashcardsFromGoals(flashcards, goals, gemini) ==
    IF goals = <<>> \/ Len(flashcards) >= 3 THEN flashcards
    ELSE LET topic == ExtractTopicFromGoal(Head(goals), gemini)
         IN  FlashcardsFromGoals(IF topic # None THEN Append(flashcards, topic) ELSE flashcards,
                                 Tail(goals), gemini)

\* _get_flashcard_recommendations
GetFlashcardRecommendations(weak_topics, goals, gemini) ==
    LET flashcards == FlashcardsFromGoals(FirstN(weak_topics, 2), GoalItems(goals), gemini)
    IN  IF flashcards = <<>> THEN <<"flashcard_general">> ELSE flashcards

\* weak_topics + [t for t in session_topics if t not in weak_topics]
CombinedTopics(weak_topics, session_topics) ==
    weak_topics \o SelectSeq(session_topics, LAMBDA t : ~InSeq(t, weak_topics))

\* _get_game_recommendations
GetGameRecommendations(learning_style, topics) ==
    LET os == IF InSeq("os", topics) \/ InSeq("operating systems", topics)
              THEN <<"game_os_visualization">> ELSE <<>>
        rec == IF InSeq("recursion", topics) \/ InSeq("algorithms", topics)
               THEN <<"game_recursion_puzzle">> ELSE <<>>
        db == IF InSeq("dbms", topics) \/ InSeq("sql", topics) \/ InSeq("database", topics)
              THEN <<"game_dbms_challenge">> ELSE <<>>
        byTopic == os \o rec \o db
        games == IF learning_style = "visual" /\ Len(byTopic) < 2
                 THEN Append(byTopic, "game_memory_match") ELSE byTopic
    IN  IF games = <<>> THEN <<"game_coding_challenge">> ELSE games

\* _get_resource_recommendations
GetResourceRecommendations(topics) ==
    LET tutorials == FirstN(topics, 2)
        resources == IF topics # <<>> THEN Append(tutorials, topics[1]) ELSE tutorials
    IN  IF resources = <<>> THEN <<"resource_general">> ELSE resources

GeneralSteps ==
    << <<"general", "practice quiz">>, <<"general", "learning assessment">>,
       <<"general", "visualization exercise">>, <<"general", "coding exercises">> >>

\* while len(next_steps) < 3: append the first general step not yet there; when
\* there is none the for loop appends nothing and the while loop never ends
RECURSIVE PadNextSteps(_)
PadNextSteps(next_steps) ==
    IF Len(next_steps) >= 3 THEN [steps |-> next_steps, terminates |-> TRUE]
    ELSE LET missing == {i \in 1..Len(GeneralSteps) : ~InSeq(GeneralSteps[i], next_steps)}
         IN  IF missing = {} THEN [steps |-> next_steps, terminates |-> FALSE]
             ELSE PadNextSteps(Append(next_steps,
                                      GeneralSteps[CHOOSE i \in missing : \A k \in missing : i <= k]))

\* _get_next_steps
GetNextSteps(weak_topics, goals, skill_level, gemini) ==
    LET byWeak == IF weak_topics = <<>> THEN <<>>
                  ELSE IF Len(weak_topics) > 1
                  THEN << <<"exercises", weak_topics[1]>>, <<"flashcards", weak_topics[2]>> >>
                  ELSE << <<"exercises", weak_topics[1]>> >>
        items == GoalItems(goals)
        goalTopic == IF items = <<>> THEN None ELSE ExtractTopicFromGoal(items[1], gemini)
        byGoal == IF goalTopic # None THEN << <<"quiz", goalTopic>> >> ELSE <<>>
        bySkill == IF skill_level = "beginner" THEN <<"level", "fundamentals tutorial">>
                   ELSE IF skill_level = "intermediate" THEN <<"level", "programming challenge">>
                   ELSE <<"level", "algorithm optimization">>
        padded == PadNextSteps(Append(byWeak \o byGoal, bySkill))
    IN  [steps |-> FirstN(padded.steps, 3), terminates |-> padded.terminates]

\* get_personalized_recommendations; weak_topics[:2] raises TypeError on None
GetPersonalizedRecommendationsOf(ctx, gemini) ==
    LET weak_topics == GetOr(Preferences(ctx), "weakTopics", <<>>)
        goals == GetOr(Preferences(ctx), "goals", <<>>)
        session_topics == GetOr(GetOr(ctx, "sessionData", EmptyDict), "topics", <<>>)
        topics == CombinedTopics(weak_topics, session_topics)
        nextSteps == GetNextSteps(weak_topics, goals, GetOr(ctx, "skillLevel", "beginner"), gemini)
    IN  IF weak_topics = NoneList
        THEN [raised |-> TRUE, terminates |-> TRUE, flashcards |-> <<>>, games |-> <<>>,
              resources |-> <<>>, nextSteps |-> <<>>]
        ELSE [raised |-> FALSE, terminates |-> nextSteps.terminates,
              flashcards |-> GetFlashcardRecommendations(weak_topics, goals, gemini),
              games |-> GetGameRecommendations(
                            GetOr(Preferences(ctx), "learningStyle", "visual"), topics),
              resources |-> GetResourceRecommendations(topics),
              nextSteps |-> nextSteps.steps]

\* recommendations.py, get_personalized_recommendations(user_id) up to the raw
\* recommendations: UserContext(user_id, user_context_manager) loads the context
GetPersonalizedRecommendations(u, gemini, env) ==
    /\ calls < MaxStoreOps
    /\ LET g == GetUserContextResult(user_contexts, dbRows, userFiles, u, env)
       IN  /\ dbRows' = g.save.rows
           /\ userFiles' = g.save.files
           /\ putDb' = PutAfter(putDb, u, g.save.dbOk, g.ctx)
           /\ putFile' = PutAfter(putFile, u, g.save.fileOk, g.ctx)
           /\ user_contexts' = IF g.save.raised THEN user_contexts
                               ELSE [user_contexts EXCEPT ![u] = g.ctx]
           /\ lastOp' = [op |-> "recommend", user |-> u, source |-> g.source,
                         loaded |-> ~g.save.raised,
                         result |-> GetPersonalizedRecommendationsOf(g.ctx, gemini)]
    /\ calls' = calls + 1
    /\ UNCHANGED <<trackVars, agentVars, supabaseOn>>

\* the columns main.py's onboarding endpoint writes, for a request that names
\* no learning goal
OnboardingColumns(u) ==
    [user_id |-> u, email |-> "u1@example.com", name |-> u,
     learning_style |-> JsonDumps(<<"visual">>),
     learning_preferences |-> JsonDumps([style |-> "visual"]),
     learning_goals |-> JsonDumps(<<>>),
     goals |-> JsonDumps(<<>>)]

\* the columns of user_profiles that the onboarding endpoint leaves unset
UnsetColumns == [weak_topics |-> NoneList, skill_level |-> None, last_activity_date |-> None]

\* main.py, the onboarding endpoint: upsert(comprehensive_profile, on_conflict="user_id")
CreateUserProfile(u) ==
    /\ calls < MaxStoreOps
    /\ supabaseOn
    /\ dbRows' = [dbRows EXCEPT ![u] = IF @ = NoRow
                                       THEN Updated(UnsetColumns, OnboardingColumns(u))
                                       ELSE Updated(@, OnboardingColumns(u))]
    /\ lastOp' = [op |-> "onboarding", user |-> u]
    /\ calls' = calls + 1
    /\ UNCHANGED <<trackVars, agentVars, supabaseOn, userFiles, user_contexts, putDb, putFile>>

RecommendPrefs ==
    {[learningStyle |-> "visual", weakTopics |-> <<"recursion", "dbms", "os">>,
      goals |-> <<"learn python", "learn sql", "master algorithms">>],
     [learningStyle |-> "textual", weakTopics |-> <<>>, goals |-> <<>>]}
SessionChoices == {[interactionCount |-> 1, topics |-> <<"sql">>]}

NextRecommend ==
    \/ \E u \in StoreUsers, env \in Envs :
        \/ \E p \in RecommendPrefs : UpdateUserContext(u, "preferences", p, env)
        \/ \E sd \in SessionChoices : UpdateUserContext(u, "sessionData", sd, env)
        \/ \E level \in {"intermediate", "advanced"} : UpdateUserContext(u, "skillLevel", level, env)
        \/ \E gemini \in GeminiModes : GetPersonalizedRecommendations(u, gemini, env)
    \/ \E u \in StoreUsers : CreateUserProfile(u)
    \/ RestartProcess

SpecRecommend == InitStore /\ [][NextRecommend]_vars

\* C17: get_personalized_recommendations returns, for the context of any user
\* (a new default one, one loaded from the database, one updated before), 1 to 3
\* flashcards, 1 to 3 games, 1 to 3 resources and exactly 3 next steps, the
\* padding loop having ended
C17_RecommendationCounts ==
    (lastOp.op = "recommend" /\ lastOp.loaded)
        => /\ ~lastOp.result.raised
           /\ lastOp.result.terminates
           /\ Len(lastOp.result.flashcards) \in 1..3
           /\ Len(lastOp.result.games) \in 1..3
           /\ Len(lastOp.result.resources) \in 1..3
           /\ Len(lastOp.result.nextSteps) = 3


----------------------------------------------------------------------------
(* The greeting generator: tests/test_personalization_greeting_fix.py,      *)
(* class DynamicGreetingGenerator.  A greeting is kept by the list it is   *)
(* taken from, its place in the list and whether the user's name is put in *)
(* front of it; the strings of one list differ from each other, and a      *)
(* named greeting differs from every unnamed one.                          *)

MaxGreetings == 2           \* calls of generate_dynamic_greeting in one run
PoolSize == 5               \* strings in each list of starters and of follow-ups

BgpKeywords ==
    {<<"b", "g", "p">>,
     <<"b", "o", "r", "d", "e", "r", " ", "g", "a", "t", "e", "w", "a", "y", " ", "p", "r", "o", "t", "o", "c", "o", "l">>,
     <<"r", "o", "u", "t", "i", "n", "g", " ", "p", "r", "o", "t", "o", "c", "o", "l">>,
     <<"a", "u", "t", "o", "n", "o", "m", "o", "u", "s", " ", "s", "y", "s", "t", "e", "m">>,
     <<"a", "s", " ", "n", "u", "m", "b", "e", "r">>}
NetworkingKeywords ==
    {<<"n", "e", "t", "w", "o", "r", "k">>,
     <<"p", "r", "o", "t", "o", "c", "o", "l">>,
     <<"t", "c", "p">>,
     <<"u", "d", "p">>,
     <<"i", "p">>,
     <<"s", "u", "b", "n", "e", "t">>,
     <<"r", "o", "u", "t", "i", "n", "g">>,
     <<"s", "w", "i", "t", "c", "h", "i", "n", "g">>}
ProgrammingKeywords ==
    {<<"c", "o", "d", "e">>,
     <<"p", "r", "o", "g", "r", "a", "m">>,
     <<"f", "u", "n", "c", "t", "i", "o", "n">>,
     <<"v", "a", "r", "i", "a", "b", "l", "e">>,
     <<"a", "l", "g", "o", "r", "i", "t", "h", "m">>,
     <<"p", "y", "t", "h", "o", "n">>,
     <<"j", "a", "v", "a", "s", "c", "r", "i", "p", "t">>}

\* detect_topic_category
DetectTopicCategory(q) ==
    IF ContainsAny(Lower(q), BgpKeywords) THEN "bgp"
    ELSE IF ContainsAny(Lower(q), NetworkingKeywords) THEN "networking"
    ELSE IF ContainsAny(Lower(q), ProgrammingKeywords) THEN "programming"
    ELSE "general"

QWhatIsBgp == <<"w", "h", "a", "t", " ", "i", "s", " ", "B", "G", "P">>
QExplainTcp == <<"e", "x", "p", "l", "a", "i", "n", " ", "t", "c", "p">>
QPythonFunction == <<"p", "y", "t", "h", "o", "n", " ", "f", "u", "n", "c", "t", "i", "o", "n">>
GreetingQueries == {QWhatIsBgp, QExplainTcp, QPythonFunction, QHello}
TopicCategory == [q \in GreetingQueries |-> DetectTopicCategory(q)]
TopicCategories == {"bgp", "networking", "programming", "general"}

\* generate_dynamic_greeting: random.choice(follow_ups) after the first
\* interaction; else random.choice(starters), with the name in front of it when
\* random.random() < 0.3.  `pick` and `named` are what the random source yields.
GenerateDynamicGreetingOf(category, interaction_count, pick, named) ==
    IF interaction_count > 0
    THEN [list |-> "follow_up_starters", category |-> category, index |-> pick, named |-> FALSE]
    ELSE [list |-> "conversation_starters", category |-> category, index |-> pick,
          named |-> named]

\* every string generate_dynamic_greeting can return for one user and category
CandidatePool(category) ==
    {GenerateDynamicGreetingOf(category, n, pick, named) :
        n \in {0, 1}, pick \in 1..PoolSize, named \in BOOLEAN}

\* one call for the one user of the run; the greetings returned so far are
\* kept per topic category, in the order of the calls
GenerateDynamicGreeting(q, category, interaction_count, pick, named) ==
    /\ calls < MaxGreetings
    /\ calls' = calls + 1
    /\ lastOp' = [op |-> "greeting", query |-> q,
                  returned |-> [lastOp.returned EXCEPT
                      ![category] = Append(@, GenerateDynamicGreetingOf(
                                                  category, interaction_count, pick, named))]]
    /\ UNCHANGED <<trackVars, agentVars, userFiles, storeVars>>

InitGreeting ==
    /\ advFile = NoFile
    /\ req = ParkedReq
    /\ userFiles = NoUserFiles
    /\ calls = 0
    /\ supabaseOn = FALSE
    /\ dbRows = [u \in StoreUsers |-> NoRow]
    /\ user_contexts = [u \in StoreUsers |-> NoCtx]
    /\ putDb = [u \in StoreUsers |-> NoCtx]
    /\ putFile = [u \in StoreUsers |-> NoCtx]
    /\ ParkedAgent
    /\ lastOp = [op |-> "none", returned |-> [c \in TopicCategories |-> <<>>]]

NextGreeting ==
    \E q \in GreetingQueries, interaction_count \in {0, 1}, pick \in 1..PoolSize,
       named \in BOOLEAN :
        GenerateDynamicGreeting(q, TopicCategory[q], interaction_count, pick, named)

SpecGreeting == InitGreeting /\ [][NextGreeting]_vars

\* C18: for the user and each topic category whose candidate pool holds more
\* than 5 strings, no two of any 5 consecutive greetings returned for that
\* category are the same string
C18_NoRepeatWithinFive ==
    \A category \in TopicCategories :
        Cardinality(CandidatePool(category)) > 5
            => \A i, j \in 1..Len(lastOp.returned[category]) :
                  (i < j /\ j - i < 5)
                      => lastOp.returned[category][i] # lastOp.returned[category][j]


(***************************************************************************)
(* process_query as a call in progress: the handler runs up to chain.run,  *)
(* the text-generation collaborator answers, raises, or stays silent, and  *)
(* the handler goes on after the answer.  Neither variant passes a timeout *)
(* to ChatGoogleGenerativeAI or wraps chain.run in a bounded wait, so the  *)
(* model has no step that leaves "in_chain_run" without an answer.         *)
(***************************************************************************)
IdleReq == [pc |-> "idle"]

InitWait ==
    /\ advFile = NoFile
    /\ userFiles = NoUserFiles
    /\ req = [r \in 1..NReq |-> IdleReq]
    /\ calls = 0
    /\ ParkedStore
    /\ ParkedAgent

\* process_query on a new profile, given the answer of the collaborator
ProcessQueryResult(v, q, c, reply) ==
    IF v = "A" THEN ProcessQueryA(NewProfileA("u1"), q, c, reply, Now(0)).result
    ELSE ProcessQueryB(NewProfileB, NoFile, q, c, reply, Now(0), "ok").result

\* process_query from its first line to the call of chain.run, or to its return
\* when the query is answered without the collaborator
CallProcessQuery(r, v, q, c) ==
    /\ req[r].pc = "idle"
    /\ req' = [req EXCEPT ![r] =
                  IF (v = "A" /\ SkipsCollaboratorA(c)) \/ (v = "B" /\ SkipsCollaboratorB(c))
                  THEN [pc |-> "returned", variant |-> v, query |-> q,
                        result |-> ProcessQueryResult(v, q, c, NotCalled)]
                  ELSE [pc |-> "in_chain_run", variant |-> v, query |-> q]]
    /\ UNCHANGED <<advFile, userFiles, calls, storeVars, agentVars, lastOp>>

\* the collaborator answers the call, or fails it: chain.run returns or raises
CollaboratorAnswers(r, reply) ==
    /\ req[r].pc = "in_chain_run"
    /\ req' = [req EXCEPT ![r] = [pc |-> "answered", variant |-> req[r].variant,
                                  query |-> req[r].query, reply |-> reply]]
    /\ UNCHANGED <<advFile, userFiles, calls, storeVars, agentVars, lastOp>>

\* process_query from the return of chain.run to its own return
ReturnFromProcessQuery(r) ==
    /\ req[r].pc = "answered"
    /\ req' = [req EXCEPT ![r] =
                  [pc |-> "returned", variant |-> req[r].variant, query |-> req[r].query,
                   result |-> ProcessQueryResult(req[r].variant, req[r].query,
                                                 Classified[req[r].query], req[r].reply)]]
    /\ UNCHANGED <<advFile, userFiles, calls, storeVars, agentVars, lastOp>>

NextWait ==
    \/ \E r \in 1..NReq, v \in Variants, q \in HelloQueries : CallProcessQuery(r, v, q, Classified[q])
    \/ \E r \in 1..NReq, reply \in Replies : CollaboratorAnswers(r, reply)
    \/ \E r \in 1..NReq : ReturnFromProcessQuery(r)

\* the steps of the handler are taken when they can be; the collaborator is
\* outside the program and owes no answer
SpecWait ==
    /\ InitWait
    /\ [][NextWait]_vars
    /\ \A r \in 1..NReq : WF_vars(ReturnFromProcessQuery(r))

\* C22: every process_query call that has reached the collaborator eventually
\* returns, whether or not the collaborator answers
C22_EveryCallReturns ==
    \A r \in 1..NReq : (req[r].pc = "in_chain_run") ~> (req[r].pc = "returned")


(* track_learning_progress, further properties of the sequential run *)

\* C23: whatever success_rate the calls carried, in [0,1] or not, every stored
\* proficiency lies within [0,1]
C23_ProficiencyClampedForAnyRate ==
    advFile # NoFile =>
        \A t \in DOMAIN advFile.knowledge_areas :
            /\ advFile.knowledge_areas[t].proficiency >= 0
            /\ advFile.knowledge_areas[t].proficiency <= ProficiencyCap

\* C25: after each recorded interaction the learning velocity is the mean
\* success_rate of the last 10 recorded interactions, and the neutral 0.5 while
\* fewer than 3 interactions are recorded
C25_VelocityIsRecentMean ==
    advFile # NoFile =>
        LET history == advFile.learning_history
            recent == LastN(history, VelocityWindow)
            total == SumSeq([i \in 1..Len(recent) |-> RateOf(recent[i])])
            v == advFile.learning_velocity
        IN  IF Len(history) < 3
            THEN v.num = DefaultVelocity * v.den
            ELSE v.num * Len(recent) = total * v.den


(***************************************************************************)
(* Weak topics.  The program keeps one list of weak topics per user, in    *)
(* the user context (preferences.weakTopics, read by the recommendations;  *)
(* update_from_query sends {"weakTopics": topic} to update_user_context).  *)
(* generate_learning_insights derives its weak_areas from the proficiency  *)
(* on every call and stores nothing.                                       *)
(***************************************************************************)
WeakThreshold == 600        \* data.get('proficiency', 0) < 0.6

\* generate_learning_insights, the weak_areas it derives
WeakAreas(profile) ==
    {t \in DOMAIN profile.knowledge_areas : profile.knowledge_areas[t].proficiency < WeakThreshold}

\* the weak topics the user context holds, under either key
StoredWeakTopics(ctx) ==
    LET inPrefs == GetOr(Preferences(ctx), "weakTopics", <<>>)
        topLevel == GetOr(ctx, "weakTopics", <<>>)
    IN  {inPrefs[i] : i \in 1..Len(inPrefs)} \cup {topLevel[i] : i \in 1..Len(topLevel)}

NextWeak ==
    \/ \E topic \in Topics, sr \in InRangeRates : TrackLearningProgress(topic, sr)
    \/ \E u \in StoreUsers, env \in Envs : UpdateUserContext(u, "weakTopics", "recursion", env)
    \/ \E u \in StoreUsers, env \in Envs : GetUserContext(u, env)

SpecWeak == InitStore /\ [][NextWeak]_vars

\* C24: after every recorded interaction a topic of the profile is among the
\* user's weak topics exactly when its proficiency is below 0.6
C24_WeakTopicsFollowProficiency ==
    advFile # NoFile =>
        \A t \in DOMAIN advFile.knowledge_areas :
            t \in StoredWeakTopics(user_contexts[TrackUser]) <=> t \in WeakAreas(advFile)


(***************************************************************************)
(* The proficiency as the build computes it.  Python's float is the IEEE   *)
(* 754 binary64: 53 significant bits, sums rounded to nearest, ties to     *)
(* even.  A value is kept here as its binary digits, lowest first, digit i *)
(* standing for 2^(i-61), so that every double between 2^-8 and 2 is held  *)
(* exactly.  The success rates of this part are 0 and powers of two, for   *)
(* which success_rate * learning_rate is exact and only the sum rounds.    *)
(***************************************************************************)
DoubleWidth == 62           \* digits kept: 2^-60 up to 2^1
MantissaBits == 53          \* significant bits of a binary64
MaxOrderCalls == 4          \* calls of one run of SpecOrder

DoubleRates == {0, 250, 500, 1000}

ZeroBits == [i \in 1..DoubleWidth |-> 0]
OneBits == [i \in 1..DoubleWidth |-> IF i = 61 THEN 1 ELSE 0]

\* the literal 0.1: mantissa 0x1999999999999A, exponent -4
TenthBits ==
    LET mantissa == <<0, 1, 0, 1>> \o [i \in 1..48 |-> IF i % 4 \in {0, 1} THEN 1 ELSE 0] \o <<1>>
    IN  [i \in 1..DoubleWidth |-> IF i > 4 /\ i - 4 <= Len(mantissa) THEN mantissa[i - 4] ELSE 0]

\* success_rate * learning_rate for learning_rate 0.1: a shift by the exponent of the rate
TimesLearningRate(rate) ==
    LET k == CASE rate = 1000 -> 0 [] rate = 500 -> 1 [] rate = 250 -> 2 [] rate = 0 -> DoubleWidth
    IN  [i \in 1..DoubleWidth |-> IF i + k <= DoubleWidth THEN TenthBits[i + k] ELSE 0]

\* the sum of two values, digit by digit with carry, before rounding
RECURSIVE AddFrom(_, _, _, _)
AddFrom(a, b, i, carry) ==
    IF i > DoubleWidth THEN <<>>
    ELSE LET s == a[i] + b[i] + carry
         IN  <<s % 2>> \o AddFrom(a, b, i + 1, s \div 2)

ExactSum(a, b) == AddFrom(a, b, 1, 0)

\* the position of the highest digit 1, 0 for zero
TopBit(x) ==
    IF x = ZeroBits THEN 0
    ELSE CHOOSE i \in 1..DoubleWidth : x[i] = 1 /\ \A j \in (i + 1)..DoubleWidth : x[j] = 0

\* arithmetic without rounding: every sum is kept exactly
RoundToDoubleExact(x) == x

\* rounding of an exact sum to 53 significant bits, to nearest, ties to even
RoundToDouble(x) ==
    LET k == TopBit(x) - MantissaBits
    IN  IF k <= 0 THEN x
        ELSE LET kept == [i \in 1..DoubleWidth |-> IF i <= k THEN 0 ELSE x[i]]
                 half == x[k] = 1
                 sticky == \E i \in 1..(k - 1) : x[i] = 1
                 odd == x[k + 1] = 1
             IN  IF half /\ (sticky \/ odd)
                 THEN ExactSum(kept, [i \in 1..DoubleWidth |-> IF i = k + 1 THEN 1 ELSE 0])
                 ELSE kept

\* min(1.0, x)
MinOne(x) ==
    IF x[62] = 1 \/ (x[61] = 1 /\ \E i \in 1..60 : x[i] = 1) THEN OneBits ELSE x

\* area['proficiency'] = min(1.0, current_proficiency + (success_rate * learning_rate))
UpdatedProficiencyDouble(current, rate) ==
    MinOne(RoundToDouble(ExactSum(current, TimesLearningRate(rate))))

\* the proficiency of one topic of a new user after calls with these success rates
RECURSIVE ProficiencyAfter(_)
ProficiencyAfter(rates) ==
    IF rates = <<>> THEN TenthBits
    ELSE UpdatedProficiencyDouble(ProficiencyAfter(SubSeq(rates, 1, Len(rates) - 1)),
                                  rates[Len(rates)])

InitOrder ==
    /\ advFile = NoFile
    /\ userFiles = NoUserFiles
    /\ req = ParkedReq
    /\ calls = 0
    /\ ParkedStore
    /\ ParkedAgent

\* track_learning_progress on the topic "recursion", the proficiency in binary64
TrackLearningProgressDouble(sr) ==
    /\ calls < MaxOrderCalls
    /\ LET profile == IF advFile = NoFile
                      THEN [learning_history |-> <<>>, proficiency |-> TenthBits, interactions |-> 0]
                      ELSE advFile
       IN  advFile' = [learning_history |-> Append(profile.learning_history, sr),
                       proficiency |-> UpdatedProficiencyDouble(profile.proficiency, sr),
                       interactions |-> profile.interactions + 1]
    /\ calls' = calls + 1
    /\ UNCHANGED <<userFiles, req, storeVars, agentVars, lastOp>>

NextOrder == \E sr \in DoubleRates : TrackLearningProgressDouble(sr)

SpecOrder == InitOrder /\ [][NextOrder]_vars

\* C26: for calls on one topic with success rates in [0,1] the order matters:
\* a new user can make two calls that, made in the one order and in the other,
\* end with different proficiency values
C26_OrderOfCallsMatters ==
    advFile = NoFile =>
        \E a \in DoubleRates, b \in DoubleRates :
            ProficiencyAfter(<<a, b>>) # ProficiencyAfter(<<b, a>>)

\* the run that recorded 0.25 and then 0.5 ends elsewhere than the run 0.5, 0.25
C26_Witness ==
    /\ advFile # NoFile
    /\ advFile.learning_history = <<250, 500>>
    /\ advFile.proficiency # ProficiencyAfter(<<500, 250>>)


\* C27: POST /personalize answers 200 for every result process_query returns,
\* whatever its classification: building the PersonalizationResponse from the
\* result never ends the request with an error
C27_PersonalizeAnswersEveryOutcome ==
    (lastOp.op = "process_query" /\ lastOp.variant = "B" /\ ~lastOp.raised)
        => lastOp.status = 200


(***************************************************************************)
(* The user context manager and the enhanced learning agent in one process *)
(* of main.py: both keep their data in user_profiles/user_<id>.json.       *)
(***************************************************************************)
NextShared ==
    \/ \E u \in StoreUsers, env \in Envs :
        \/ \E p \in PrefChoices : UpdateUserContext(u, "preferences", p, env)
        \/ GetUserContext(u, env)
    \/ RestartProcess
    \/ \E u \in FileKeys, env \in Envs :
        \/ EnhGetUserProfile(u, env)
        \/ \E topic \in AreaTopics : EnhRecordInteraction(u, topic, env)

SpecShared == InitStore /\ [][NextShared]_vars

\* C28: once the manager has saved a context of a user to the fallback file, the
\* file holds the context it saved last, whatever the other component did since
C28_FallbackFileHoldsContext ==
    \A u \in StoreUsers :
        putFile[u] # NoCtx => userFiles[SafeUserId(u)] = putFile[u]


(***************************************************************************)
(* Two users whose ids differ in one character that safe_user_id replaces. *)
(* The process has no database client, so the file is the store.           *)
(***************************************************************************)
IsolationUsers == {"a+b", "a_b"}

InitIsolation ==
    /\ advFile = NoFile
    /\ req = ParkedReq
    /\ userFiles = [k \in {SafeUserId(u) : u \in IsolationUsers} |-> NoFile]
    /\ calls = 0
    /\ supabaseOn = FALSE
    /\ ParkedAgent
    /\ dbRows = [u \in IsolationUsers |-> NoRow]
    /\ user_contexts = [u \in IsolationUsers |-> NoCtx]
    /\ putDb = [u \in IsolationUsers |-> NoCtx]
    /\ putFile = [u \in IsolationUsers |-> NoCtx]
    /\ lastOp = [op |-> "none"]

NextIsolation ==
    \/ \E u \in IsolationUsers, env \in Envs :
        \/ \E p \in PrefChoices : UpdateUserContext(u, "preferences", p, env)
        \/ \E g \in Goals : UpdateUserContext(u, "goals", g, env)
        \/ UpdateUserContext(u, "skillLevel", "intermediate", env)
        \/ GetUserContext(u, env)
    \/ RestartProcess

SpecIsolation == InitIsolation /\ [][NextIsolation]_vars

\* C29: users are isolated in the file store: the context the manager holds for
\* a user is that user's own, and an operation on one user leaves the files of
\* the other users as they were
C29_UsersIsolated ==
    /\ \A u \in DOMAIN user_contexts :
          user_contexts[u] # NoCtx => GetOr(user_contexts[u], "userId", u) = u
    /\ \A u \in DOMAIN putFile :
          putFile[u] # NoCtx => userFiles[SafeUserId(u)] = putFile[u]


(***************************************************************************)
(* Flagging a weak topic and asking for recommendations.  update_from_query *)
(* flags a topic by update_context({"weakTopics": topic}), which is         *)
(* update_user_context with the topic as a string.                          *)
(***************************************************************************)
NextFlag ==
    \/ \E u \in StoreUsers, env \in Envs :
        \/ \E t \in {"recursion"} : UpdateUserContext(u, "weakTopics", t, env)
        \/ \E p \in RecommendPrefs : UpdateUserContext(u, "preferences", p, env)
        \/ \E gemini \in GeminiModes : GetPersonalizedRecommendations(u, gemini, env)
    \/ RestartProcess

SpecFlag == InitStore /\ [][NextFlag]_vars

\* the topics flagged by {"weakTopics": topic} that the context holds
FlaggedTopics(ctx) == GetOr(ctx, "weakTopics", <<>>)

\* C30: a topic flagged as weak is in the weak-topic list the recommendation
\* generator reads, preferences.weakTopics: the recommendations computed for a
\* context are computed with every topic flagged in it
C30_FlaggedTopicIsRead ==
    (lastOp.op = "recommend" /\ lastOp.loaded)
        => LET ctx == user_contexts[lastOp.user]
               flagged == FlaggedTopics(ctx)
           IN  \A i \in 1..Len(flagged) :
                  InSeq(flagged[i], GetOr(Preferences(ctx), "weakTopics", <<>>))

====
